---- MODULE Spec2Model ----
(***************************************************************************)
(* MufflerManOS AnalyticsModule (src/src/modules/analytics/analytics.ts):  *)
(* the analytics cache, the aggregation path, the report store, the        *)
(* dashboard store and the alert check, run by concurrent request tasks    *)
(* that interleave at every `await`, and the real-time broadcast timer of  *)
(* the server (src/unnamed/part_001).                                      *)
(***************************************************************************)
EXTENDS Integers, Sequences, FiniteSets, TLC

VARIABLES now, dataCache, reports, dashboards, tasks, lastPut, broadcaster, config,
          items, transactions, ledger, customers, vehicles, serviceRecords

vars == <<now, dataCache, reports, dashboards, tasks, lastPut, broadcaster, config,
          items, transactions, ledger, customers, vehicles, serviceRecords>>

\* the state of the InventoryModule (ledger: what the successful calls moved)
inventory == <<items, transactions, ledger>>

\* the state of the CustomersModule
crm == <<customers, vehicles, serviceRecords>>

\* the state of the AnalyticsModule and of the broadcast timer
analytics == <<dataCache, reports, dashboards, lastPut, broadcaster, config>>

(* ------------------------------ bounds --------------------------------- *)

\* number of concurrent request tasks
NumTasks == 2
\* the sampled clock has the instants 0..MaxFine and, one TTL later,
\* cacheExpiry - 1 .. cacheExpiry + MaxFine
MaxFine == 0
\* number of reports the store may hold before generateReport stops being called
MaxReports == 2
\* number of operations the callers start in one run
MaxCalls == 3

(* ----------------------------- constants ------------------------------- *)

\* private cacheExpiry = 5 * 60 * 1000
cacheExpiry == 5 * 60 * 1000

Tasks == 1..NumTasks

\* the instants the wall clock is sampled at (milliseconds)
Times == (0..MaxFine) \cup ((cacheExpiry - 1)..(cacheExpiry + MaxFine))

\* time-range arguments of generateAnalyticsData / generateReport
TimeRanges == {"day", "month"}

\* outcomes of Math.random()
Random == {1, 2}

\* arguments of generateReport
ReportRanges == {"month"}
ReportNames == {"Monthly Ops"}
ReportTypes == {"monthly"}
Users == {"admin"}

None == [none |-> TRUE]

FacetNames == <<"revenue", "operations", "customers", "inventory", "performance", "trends">>

FacetSet == { FacetNames[i] : i \in 1..Len(FacetNames) }

FacetIndex(f) == CHOOSE i \in 1..Len(FacetNames) : FacetNames[i] = f

\* the facets whose generator calls Math.random()
RandomFacets == {"revenue", "trends"}

DrawsFor(f) == IF f \in RandomFacets THEN Random ELSE {0}

(* ------------------------- facet generators ---------------------------- *)

generateRevenueAnalytics(r) == [totalRevenue |-> 45000 + r, averageTicketValue |-> 125]

generateOperationsAnalytics == [totalJobs |-> 156, completedJobs |-> 142, pendingJobs |-> 14]

generateCustomerAnalytics == [totalCustomers |-> 245, activeCustomers |-> 189, newCustomers |-> 23]

generateInventoryAnalytics == [totalItems |-> 156, lowStockItems |-> 12, outOfStockItems |-> 3]

generatePerformanceAnalytics == [reworkRate |-> 2, firstTimeFixRate |-> 97]

generateTrendAnalytics(r) == [revenueTrend |-> 3000 + r, seasonalPeak |-> "Apr"]

FacetValue(f, r) ==
  CASE f = "revenue"     -> generateRevenueAnalytics(r)
    [] f = "operations"  -> generateOperationsAnalytics
    [] f = "customers"   -> generateCustomerAnalytics
    [] f = "inventory"   -> generateInventoryAnalytics
    [] f = "performance" -> generatePerformanceAnalytics
    [] f = "trends"      -> generateTrendAnalytics(r)

\* the AnalyticsData object literal of generateAnalyticsData
AnalyticsData(fs, t) ==
  [revenue |-> fs[1], operations |-> fs[2], customers |-> fs[3],
   inventory |-> fs[4], performance |-> fs[5], trends |-> fs[6],
   generatedAt |-> t]

(* ------------------------------ the cache ------------------------------ *)

\* const cacheKey = `analytics_${timeRange}`
cacheKey(timeRange) == <<"analytics", timeRange>>

\* Map.get: undefined (None) for an absent key
MapGet(m, k) == IF k \in DOMAIN m THEN m[k] ELSE None

\* Map.set: insert or overwrite the one entry of key k
MapSet(m, k, v) == [x \in (DOMAIN m) \cup {k} |-> IF x = k THEN v ELSE m[x]]

\* CacheHit with the comparison inverted
CacheHit_Inverted(cached, t) == cached # None /\ t - cached.timestamp > cacheExpiry

\* CacheHit without the expiry test
CacheHit_NoExpiry(cached, t) == cached # None

\* CacheHit with an entry that is exactly cacheExpiry old still counted fresh
CacheHit_Inclusive(cached, t) == cached # None /\ t - cached.timestamp <= cacheExpiry

\* cached && Date.now() - cached.timestamp.getTime() < this.cacheExpiry
CacheHit(cached, t) == cached # None /\ t - cached.timestamp < cacheExpiry

(* --------------------------- the report store --------------------------- *)

\* `report-${Date.now()}-${Math.random().toString(36).substr(2, 9)}`
ReportId(t, r) == <<"report", t, r>>

ReportIndex(rs, id) == { i \in 1..Len(rs) : rs[i].id = id }

\* this.reports.set(report.id, report): a Map keeps the position of an
\* existing key and appends a new one
ReportsSet(rs, r) ==
  IF ReportIndex(rs, r.id) # {}
    THEN [i \in 1..Len(rs) |-> IF rs[i].id = r.id THEN r ELSE rs[i]]
    ELSE Append(rs, r)

\* this.reports.get(id) || null
ReportsGet(rs, id) ==
  IF ReportIndex(rs, id) # {} THEN rs[CHOOSE i \in ReportIndex(rs, id) : TRUE] ELSE None

\* arguments of exportReport
Formats == {"json", "csv"}

\* report names of the callers that also export
ExportNames == {"Monthly Ops", "Weekly Ops"}

\* throw new Error(`Report ${reportId} not found`): the id is the call's argument
ReportNotFound == "Report not found"

MsPerDay == 24 * 60 * 60 * 1000

\* date.toISOString().split('T')[0]: the UTC calendar day, as days since the epoch
ISODate(t) == t \div MsPerDay

\* `${report.name}_${report.generatedAt.toISOString().split('T')[0]}.${format}`
Filename(report, format) == <<report.name, ISODate(report.generatedAt), format>>

(* -------------------------- the dashboard store ------------------------- *)

\* 'dashboard-001'
SampleDashboardId == <<"dashboard", 1>>

\* `dashboard-${Date.now()}-${Math.random().toString(36).substr(2, 9)}`
DashboardId(t, r) == <<"dashboard", t, r>>

\* an id no dashboard is stored under ('dashboard-404')
MissingDashboardId == <<"dashboard", 404>>

\* the object initializeSampleDashboards builds, its two `new Date()` being t1 and t2
sampleDashboard(t1, t2) ==
  [id |-> SampleDashboardId, name |-> "Operations Overview",
   description |-> "Real-time overview of shop operations and key metrics",
   widgets |-> <<"widget-001", "widget-002", "widget-003">>,
   layout |-> [columns |-> 4, rows |-> 3, widgets |-> <<>>],
   isPublic |-> TRUE, createdBy |-> "system", createdAt |-> t1, updatedAt |-> t2]

\* arguments of createDashboard: Omit<Dashboard, 'id' | 'createdAt' | 'updatedAt'>
Definitions ==
  { [name |-> "Sales", description |-> "Sales board", widgets |-> <<"widget-101">>,
     layout |-> [columns |-> 2, rows |-> 1, widgets |-> <<>>],
     isPublic |-> FALSE, createdBy |-> "admin"] }

\* arguments of updateDashboard: Partial<Dashboard>
Partials ==
  { [name |-> "X"],
    [description |-> "Y", isPublic |-> FALSE],
    [updatedAt |-> 0],
    [id |-> <<"dashboard", 2>>],
    [createdAt |-> 2 * cacheExpiry] }

\* { ...a, ...b }: the fields of b override those of a
Spread(a, b) ==
  [f \in (DOMAIN a) \cup (DOMAIN b) |-> IF f \in DOMAIN b THEN b[f] ELSE a[f]]

DashboardIndex(ds, k) == { i \in 1..Len(ds) : ds[i].key = k }

DashboardKeys(ds) == { ds[i].key : i \in 1..Len(ds) }

\* this.dashboards.set(k, d): a Map keeps the position of an existing key and
\* appends a new one
DashboardsSet(ds, k, d) ==
  IF DashboardIndex(ds, k) # {}
    THEN [i \in 1..Len(ds) |-> IF ds[i].key = k THEN [key |-> k, value |-> d] ELSE ds[i]]
    ELSE Append(ds, [key |-> k, value |-> d])

\* this.dashboards.get(k) || null
DashboardsGet(ds, k) ==
  IF DashboardIndex(ds, k) # {}
    THEN ds[CHOOSE i \in DashboardIndex(ds, k) : TRUE].value
    ELSE None

\* Array.from(this.dashboards.values())
DashboardValues(ds) == [i \in 1..Len(ds) |-> ds[i].value]

(* ------------------------------- tasks --------------------------------- *)

IdleTask ==
  [pc |-> "idle", op |-> "none", timeRange |-> "none", name |-> "none",
   type |-> "none", generatedBy |-> "none", arg |-> None,
   n |-> 0, cached |-> None, hit |-> FALSE, invoked |-> 0, facets |-> <<>>,
   data |-> None, report |-> None, result |-> None, err |-> "none",
   afterFail |-> FALSE]

Free(p) == tasks[p].pc \in {"idle", "done"}

\* Date.now() / new Date(): the wall clock is monotonic, `now` is its latest
\* reading; a call may start at any instant from it on
Later(t) == { t2 \in Times : t2 >= t }

\* the next reading of the clock by a running call (its steps follow each
\* other within microtasks): the same millisecond or the next one
ClockReads(t) == { t2 \in Times : t2 = t \/ t2 = t + 1 }

\* the server's configuration file without analytics options
DefaultConfig == [nodeName |-> "genesis-node"]

\* configurations that supply a cache TTL or a broadcast period
Configs ==
  { DefaultConfig,
    [nodeName |-> "genesis-node", cacheTtlMs |-> 1],
    [nodeName |-> "genesis-node", broadcastIntervalMs |-> 1000] }

\* the delay argument of setInterval
BroadcastPeriod(c) == 5000

\* InventoryModule.initializeSampleData: the three sample items with the
\* fields the stock operations read or write
sampleItems ==
  [i \in {"item-001", "item-002", "item-003"} |->
     [id |-> i,
      name |-> CASE i = "item-001" -> "Synthetic Oil 5W-30"
                 [] i = "item-002" -> "Oil Filter"
                 [] OTHER -> "OBD-II Scanner",
      quantity |-> CASE i = "item-001" -> 48 [] i = "item-002" -> 25 [] OTHER -> 3,
      updatedAt |-> 0]]

\* dates of the sample data, before the construction instant 0
Dec10 == 0 - 10
Nov28 == 0 - 22

\* CustomersModule.initializeSampleData, amounts in cents, with the fields
\* addServiceRecord reads or writes
sampleCustomers ==
  [c \in {"cust-001", "cust-002"} |->
     [id |-> c,
      totalSpent |-> IF c = "cust-001" THEN 284750 ELSE 124575,
      lastVisit |-> IF c = "cust-001" THEN Dec10 ELSE Nov28,
      updatedAt |-> 0]]

sampleVehicles ==
  [v \in {"veh-001", "veh-002"} |->
     [id |-> v,
      customerId |-> IF v = "veh-001" THEN "cust-001" ELSE "cust-002",
      mileage |-> IF v = "veh-001" THEN 45000 ELSE 62000,
      lastServiceDate |-> IF v = "veh-001" THEN Dec10 ELSE Nov28,
      updatedAt |-> 0]]

sampleServiceRecords ==
  <<[id |-> <<"sr", 1>>, customerId |-> "cust-001", vehicleId |-> "veh-001",
     serviceDate |-> Dec10, mileage |-> 45000, totalAmount |-> 18879, createdAt |-> Dec10]>>

\* the server constructed with configuration c: `new AnalyticsModule()` has an
\* empty report store and cache and the sample dashboard; setupWebSockets has
\* started the broadcast timer
Constructed(c) ==
  /\ config = c
  /\ \E t2 \in ClockReads(0) :
       /\ now = t2
       /\ dashboards = <<[key |-> SampleDashboardId, value |-> sampleDashboard(0, t2)]>>
  /\ dataCache = <<>>
  /\ reports = <<>>
  /\ tasks = [p \in Tasks |-> IdleTask]
  /\ lastPut = <<>>
  /\ broadcaster = [timer |-> "running", period |-> BroadcastPeriod(c), pc |-> "idle",
                    last |-> "none", emits |-> 0, sent |-> None]
  /\ items = sampleItems
  /\ transactions = <<>>
  /\ ledger = [i \in DOMAIN sampleItems |-> [out |-> 0, back |-> 0]]
  /\ customers = sampleCustomers
  /\ vehicles = sampleVehicles
  /\ serviceRecords = sampleServiceRecords

Init == Constructed(DefaultConfig)

\* the server constructed with any of the configurations
InitConfig == \E c \in Configs : Constructed(c)

RECURSIVE SumCalls(_)
SumCalls(ps) == IF ps = {} THEN 0
                ELSE LET q == CHOOSE q \in ps : TRUE IN tasks[q].n + SumCalls(ps \ {q})

\* the number of operations started so far
Calls == SumCalls(Tasks)

\* a caller starts an operation on a task that is not running one
Call(p) == Free(p) /\ Calls < MaxCalls

InFlightReports ==
  Cardinality({ q \in Tasks : tasks[q].op = "generateReport" /\ ~Free(q) })

\* the async function settles: a direct call is done, generateReport resumes
\* after its `await this.generateAnalyticsData(...)`
Settled(op) == IF op = "generateReport" THEN "report" ELSE "done"

\* a call for this time range has failed, as far as the callers' latest calls show
FailedOn(timeRange) ==
  \E q \in Tasks : tasks[q].err # "none" /\ tasks[q].timeRange = timeRange

\* Lookup that serves the stale entry when a call for the time range has failed
Lookup_StaleIfError(p, op, timeRange, name, type, generatedBy) ==
  LET cached == MapGet(dataCache, cacheKey(timeRange))
      call == [IdleTask EXCEPT !.op = op, !.timeRange = timeRange, !.name = name,
                               !.type = type, !.generatedBy = generatedBy,
                               !.n = tasks[p].n + 1, !.cached = cached,
                               !.afterFail = FailedOn(timeRange)]
  IN /\ Call(p)
     /\ \E t \in Later(now) :
          /\ now' = t
          /\ IF CacheHit(cached, t) \/ (cached # None /\ FailedOn(timeRange))
               THEN tasks' = [tasks EXCEPT ![p] =
                      [call EXCEPT !.pc = Settled(op), !.hit = TRUE, !.data = cached.data,
                                   !.result = IF op = "generateReport" THEN None ELSE cached.data]]
               ELSE tasks' = [tasks EXCEPT ![p] =
                      [call EXCEPT !.pc = FacetNames[1], !.invoked = 1]]
     /\ UNCHANGED <<dataCache, reports, dashboards, lastPut, broadcaster, config, inventory, crm>>

\* Lookup that refreshes the timestamp of the entry it hits and removes the
\* stale entry it misses on
Lookup_Touch(p, op, timeRange, name, type, generatedBy) ==
  LET key == cacheKey(timeRange)
      cached == MapGet(dataCache, key)
      call == [IdleTask EXCEPT !.op = op, !.timeRange = timeRange, !.name = name,
                               !.type = type, !.generatedBy = generatedBy,
                               !.n = tasks[p].n + 1, !.cached = cached,
                               !.afterFail = FailedOn(timeRange)]
  IN /\ Call(p)
     /\ \E t \in Later(now) :
          /\ now' = t
          /\ IF CacheHit(cached, t)
               THEN /\ tasks' = [tasks EXCEPT ![p] =
                         [call EXCEPT !.pc = Settled(op), !.hit = TRUE, !.data = cached.data,
                                      !.result = IF op = "generateReport" THEN None ELSE cached.data]]
                    /\ dataCache' = MapSet(dataCache, key, [cached EXCEPT !.timestamp = t])
               ELSE /\ tasks' = [tasks EXCEPT ![p] =
                         [call EXCEPT !.pc = FacetNames[1], !.invoked = 1]]
                    /\ dataCache' = [k \in (DOMAIN dataCache) \ {key} |-> dataCache[k]]
     /\ UNCHANGED <<reports, dashboards, lastPut, broadcaster, config, inventory, crm>>

\* generateAnalyticsData up to its first suspension: the cache lookup, then
\* either the early return or the call of generateRevenueAnalytics
Lookup(p, op, timeRange, name, type, generatedBy) ==
  LET cached == MapGet(dataCache, cacheKey(timeRange))
      call == [IdleTask EXCEPT !.op = op, !.timeRange = timeRange, !.name = name,
                               !.type = type, !.generatedBy = generatedBy,
                               !.n = tasks[p].n + 1, !.cached = cached,
                               !.afterFail = FailedOn(timeRange)]
  IN /\ Call(p)
     /\ \E t \in Later(now) :
          /\ now' = t
          /\ IF CacheHit(cached, t)
               THEN tasks' = [tasks EXCEPT ![p] =
                      [call EXCEPT !.pc = Settled(op), !.hit = TRUE, !.data = cached.data,
                                   !.result = IF op = "generateReport" THEN None ELSE cached.data]]
               ELSE tasks' = [tasks EXCEPT ![p] =
                      [call EXCEPT !.pc = FacetNames[1], !.invoked = 1]]
     /\ UNCHANGED <<dataCache, reports, dashboards, lastPut, broadcaster, config, inventory, crm>>

\* a direct generateAnalyticsData call with a time range of `ranges`
generateAnalyticsDataIn(p, ranges) ==
  \E timeRange \in ranges :
    Lookup(p, "generateAnalyticsData", timeRange, "none", "none", "none")

generateAnalyticsData(p) == generateAnalyticsDataIn(p, TimeRanges)

\* a generateReport call with a time range of `ranges` and a name of `names`
generateReportIn(p, ranges, names) ==
  /\ Len(reports) + InFlightReports < MaxReports
  /\ \E timeRange \in ranges, name \in names, type \in ReportTypes, generatedBy \in Users :
       Lookup(p, "generateReport", timeRange, name, type, generatedBy)

generateReport(p) == generateReportIn(p, ReportRanges, ReportNames)

\* an awaited facet resolves: its value is stored and the next generator is called
ResumeFacet(p) ==
  LET f == tasks[p].pc IN
  /\ f \in FacetSet /\ f # FacetNames[Len(FacetNames)]
  /\ \E r \in DrawsFor(f) :
       tasks' = [tasks EXCEPT ![p].facets = Append(@, FacetValue(f, r)),
                              ![p].pc = FacetNames[FacetIndex(f) + 1],
                              ![p].invoked = @ + 1]
  /\ UNCHANGED <<now, dataCache, reports, dashboards, lastPut, broadcaster, config, inventory, crm>>

\* PutBundle that reads the clock for the cache entry before it stamps the bundle
PutBundle_StampFirst(p) ==
  LET f == tasks[p].pc
      key == cacheKey(tasks[p].timeRange)
  IN
  /\ f = FacetNames[Len(FacetNames)]
  /\ \E r \in DrawsFor(f), t1 \in ClockReads(now) : \E t2 \in ClockReads(t1) :
       LET data == AnalyticsData(Append(tasks[p].facets, FacetValue(f, r)), t2) IN
       /\ dataCache' = MapSet(dataCache, key, [data |-> data, timestamp |-> t1])
       /\ now' = t2
       /\ lastPut' = MapSet(lastPut, key, p)
       /\ tasks' = [tasks EXCEPT ![p].facets = Append(@, FacetValue(f, r)),
                                 ![p].data = data,
                                 ![p].pc = Settled(tasks[p].op),
                                 ![p].result = IF tasks[p].op = "generateReport" THEN None ELSE data]
  /\ UNCHANGED <<reports, dashboards, broadcaster, config, inventory, crm>>

\* PutBundle that takes the revenue facet from the entry already in the cache
PutBundle_Mixed(p) ==
  LET f == tasks[p].pc
      key == cacheKey(tasks[p].timeRange)
      entry == MapGet(dataCache, key)
  IN
  /\ f = FacetNames[Len(FacetNames)]
  /\ \E r \in DrawsFor(f), t1 \in ClockReads(now) : \E t2 \in ClockReads(t1) :
       LET own == AnalyticsData(Append(tasks[p].facets, FacetValue(f, r)), t1)
           data == IF entry # None THEN [own EXCEPT !.revenue = entry.data.revenue] ELSE own
       IN
       /\ dataCache' = MapSet(dataCache, key, [data |-> data, timestamp |-> t2])
       /\ now' = t2
       /\ lastPut' = MapSet(lastPut, key, p)
       /\ tasks' = [tasks EXCEPT ![p].facets = Append(@, FacetValue(f, r)),
                                 ![p].data = data,
                                 ![p].pc = Settled(tasks[p].op),
                                 ![p].result = IF tasks[p].op = "generateReport" THEN None ELSE data]
  /\ UNCHANGED <<reports, dashboards, broadcaster, config, inventory, crm>>

\* PutBundle that empties the cache before it stores its entry
PutBundle_Clear(p) ==
  LET f == tasks[p].pc
      key == cacheKey(tasks[p].timeRange)
  IN
  /\ f = FacetNames[Len(FacetNames)]
  /\ \E r \in DrawsFor(f), t1 \in ClockReads(now) : \E t2 \in ClockReads(t1) :
       LET data == AnalyticsData(Append(tasks[p].facets, FacetValue(f, r)), t1) IN
       /\ dataCache' = MapSet(<<>>, key, [data |-> data, timestamp |-> t2])
       /\ now' = t2
       /\ lastPut' = MapSet(lastPut, key, p)
       /\ tasks' = [tasks EXCEPT ![p].facets = Append(@, FacetValue(f, r)),
                                 ![p].data = data,
                                 ![p].pc = Settled(tasks[p].op),
                                 ![p].result = IF tasks[p].op = "generateReport" THEN None ELSE data]
  /\ UNCHANGED <<reports, dashboards, broadcaster, config, inventory, crm>>

\* PutBundle that keeps an entry another call stored in the meantime
PutBundle_FirstWins(p) ==
  LET f == tasks[p].pc
      key == cacheKey(tasks[p].timeRange)
  IN
  /\ f = FacetNames[Len(FacetNames)]
  /\ \E r \in DrawsFor(f), t1 \in ClockReads(now) : \E t2 \in ClockReads(t1) :
       LET data == AnalyticsData(Append(tasks[p].facets, FacetValue(f, r)), t1) IN
       /\ dataCache' = IF MapGet(dataCache, key) = tasks[p].cached
                          THEN MapSet(dataCache, key, [data |-> data, timestamp |-> t2])
                          ELSE dataCache
       /\ now' = t2
       /\ lastPut' = MapSet(lastPut, key, p)
       /\ tasks' = [tasks EXCEPT ![p].facets = Append(@, FacetValue(f, r)),
                                 ![p].data = data,
                                 ![p].pc = Settled(tasks[p].op),
                                 ![p].result = IF tasks[p].op = "generateReport" THEN None ELSE data]
  /\ UNCHANGED <<reports, dashboards, broadcaster, config, inventory, crm>>

\* the last facet resolves: the bundle is stamped, stored in the cache and returned
PutBundle(p) ==
  LET f == tasks[p].pc
      key == cacheKey(tasks[p].timeRange)
  IN
  /\ f = FacetNames[Len(FacetNames)]
  /\ \E r \in DrawsFor(f), t1 \in ClockReads(now) : \E t2 \in ClockReads(t1) :
       LET data == AnalyticsData(Append(tasks[p].facets, FacetValue(f, r)), t1) IN
       /\ dataCache' = MapSet(dataCache, key, [data |-> data, timestamp |-> t2])
       /\ now' = t2
       /\ lastPut' = MapSet(lastPut, key, p)
       /\ tasks' = [tasks EXCEPT ![p].facets = Append(@, FacetValue(f, r)),
                                 ![p].data = data,
                                 ![p].pc = Settled(tasks[p].op),
                                 ![p].result = IF tasks[p].op = "generateReport" THEN None ELSE data]
  /\ UNCHANGED <<reports, dashboards, broadcaster, config, inventory, crm>>

\* StoreReport that reads the bundle back from the cache
StoreReport_FromCache(p) ==
  /\ tasks[p].pc = "report"
  /\ tasks[p].err = "none"
  /\ \E r \in Random, t1 \in ClockReads(now) : \E t2 \in ClockReads(t1) :
       LET report == [id |-> ReportId(t1, r), name |-> tasks[p].name,
                      type |-> tasks[p].type,
                      data |-> MapGet(dataCache, cacheKey(tasks[p].timeRange)).data,
                      generatedBy |-> tasks[p].generatedBy, generatedAt |-> t2]
       IN /\ reports' = ReportsSet(reports, report)
          /\ now' = t2
          /\ tasks' = [tasks EXCEPT ![p].pc = "done", ![p].result = report]
  /\ UNCHANGED <<dataCache, dashboards, lastPut, broadcaster, config, inventory, crm>>

\* generateReport after its await: build the report, store it, return it
StoreReport(p) ==
  /\ tasks[p].pc = "report"
  /\ tasks[p].err = "none"
  /\ \E r \in Random, t1 \in ClockReads(now) : \E t2 \in ClockReads(t1) :
       LET report == [id |-> ReportId(t1, r), name |-> tasks[p].name,
                      type |-> tasks[p].type, data |-> tasks[p].data,
                      generatedBy |-> tasks[p].generatedBy, generatedAt |-> t2]
       IN /\ reports' = ReportsSet(reports, report)
          /\ now' = t2
          /\ tasks' = [tasks EXCEPT ![p].pc = "done", ![p].result = report]
  /\ UNCHANGED <<dataCache, dashboards, lastPut, broadcaster, config, inventory, crm>>

\* an id no generateReport call produces (0 is not an outcome of Random)
MissingId == ReportId(0, 0)

StoredIds == { reports[i].id : i \in 1..Len(reports) }

getReport(p) ==
  /\ Call(p)
  /\ \E id \in StoredIds \cup {MissingId} :
       tasks' = [tasks EXCEPT ![p] =
         [IdleTask EXCEPT !.pc = "done", !.op = "getReport", !.arg = id, !.n = tasks[p].n + 1,
                          !.result = ReportsGet(reports, id)]]
  /\ UNCHANGED <<now, dataCache, reports, dashboards, lastPut, broadcaster, config, inventory, crm>>

\* the comparator with its operands swapped
compare_Ascending(a, b) == a.generatedAt - b.generatedAt

\* the comparator (a, b) => b.generatedAt.getTime() - a.generatedAt.getTime()
compare(a, b) == b.generatedAt - a.generatedAt

\* Array.prototype.sort is stable: x, which follows the elements of `sorted`
\* in the input, goes before the first element it compares less than
RECURSIVE InsertSorted(_, _)
InsertSorted(sorted, x) ==
  IF sorted = <<>> THEN <<x>>
  ELSE IF compare(x, Head(sorted)) < 0
         THEN <<x>> \o sorted
         ELSE <<Head(sorted)>> \o InsertSorted(Tail(sorted), x)

RECURSIVE SortDesc(_)
SortDesc(rs) ==
  IF rs = <<>> THEN <<>>
  ELSE InsertSorted(SortDesc(SubSeq(rs, 1, Len(rs) - 1)), rs[Len(rs)])

getAllReports(p) ==
  /\ Call(p)
  /\ tasks' = [tasks EXCEPT ![p] =
       [IdleTask EXCEPT !.pc = "done", !.op = "getAllReports", !.n = tasks[p].n + 1,
                        !.result = SortDesc(reports)]]
  /\ UNCHANGED <<now, dataCache, reports, dashboards, lastPut, broadcaster, config, inventory, crm>>

\* the error a failing DataProvider facet fetch raises
ProviderError == "DataUnavailable"

\* FacetFail that caches what has been assembled so far
FacetFail_CachePartial(p) ==
  /\ tasks[p].pc \in FacetSet
  /\ tasks' = [tasks EXCEPT ![p].pc = Settled(tasks[p].op), ![p].err = ProviderError]
  /\ dataCache' = MapSet(dataCache, cacheKey(tasks[p].timeRange),
                         [data |-> tasks[p].facets, timestamp |-> now])
  /\ UNCHANGED <<now, reports, dashboards, lastPut, broadcaster, config, inventory, crm>>

\* an awaited facet rejects: the await throws, nothing catches it, so the
\* async function rejects with that error before it reaches dataCache.set
FacetFail(p) ==
  /\ tasks[p].pc \in FacetSet
  /\ tasks' = [tasks EXCEPT ![p].pc = Settled(tasks[p].op), ![p].err = ProviderError]
  /\ UNCHANGED <<now, dataCache, reports, dashboards, lastPut, broadcaster, config, inventory, crm>>

\* RejectReport that stores a report without a bundle before it fails
RejectReport_StoreEmpty(p) ==
  /\ tasks[p].pc = "report"
  /\ tasks[p].err # "none"
  /\ \E r \in Random, t1 \in ClockReads(now) : \E t2 \in ClockReads(t1) :
       /\ reports' = ReportsSet(reports,
                       [id |-> ReportId(t1, r), name |-> tasks[p].name, type |-> tasks[p].type,
                        data |-> None, generatedBy |-> tasks[p].generatedBy,
                        generatedAt |-> t2])
       /\ now' = t2
  /\ tasks' = [tasks EXCEPT ![p].pc = "done"]
  /\ UNCHANGED <<dataCache, dashboards, lastPut, broadcaster, config, inventory, crm>>

\* generateReport when its `await this.generateAnalyticsData(...)` throws:
\* nothing catches the error, so generateReport rejects with it before it
\* builds a report
RejectReport(p) ==
  /\ tasks[p].pc = "report"
  /\ tasks[p].err # "none"
  /\ tasks' = [tasks EXCEPT ![p].pc = "done"]
  /\ UNCHANGED <<now, dataCache, reports, dashboards, lastPut, broadcaster, config, inventory, crm>>

(* ------------------------------- export -------------------------------- *)

\* exportReport without the `if (!report)` test: a missing id settles without error
exportReport_NoCheck(p) ==
  /\ Call(p)
  /\ \E reportId \in StoredIds \cup {MissingId}, format \in Formats :
       LET report == ReportsGet(reports, reportId)
           call == [IdleTask EXCEPT !.op = "exportReport", !.n = tasks[p].n + 1,
                                    !.arg = [reportId |-> reportId, format |-> format]]
       IN IF report = None
            THEN tasks' = [tasks EXCEPT ![p] = [call EXCEPT !.pc = "done"]]
            ELSE tasks' = [tasks EXCEPT ![p] = [call EXCEPT !.pc = "export", !.report = report]]
  /\ UNCHANGED <<now, dataCache, reports, dashboards, lastPut, broadcaster, config, inventory, crm>>

\* exportReport up to its suspension: the lookup, then either the throw or the
\* start of the one-second timeout
exportReport(p) ==
  /\ Call(p)
  /\ \E reportId \in StoredIds \cup {MissingId}, format \in Formats :
       LET report == ReportsGet(reports, reportId)
           call == [IdleTask EXCEPT !.op = "exportReport", !.n = tasks[p].n + 1,
                                    !.arg = [reportId |-> reportId, format |-> format]]
       IN IF report = None
            THEN tasks' = [tasks EXCEPT ![p] = [call EXCEPT !.pc = "done", !.err = ReportNotFound]]
            ELSE tasks' = [tasks EXCEPT ![p] = [call EXCEPT !.pc = "export", !.report = report]]
  /\ UNCHANGED <<now, dataCache, reports, dashboards, lastPut, broadcaster, config, inventory, crm>>

\* ExportDone that looks the report up again after the timeout
ExportDone_Reread(p) ==
  /\ tasks[p].pc = "export"
  /\ tasks' = [tasks EXCEPT ![p].pc = "done",
                            ![p].result = Filename(ReportsGet(reports, tasks[p].arg.reportId),
                                                   tasks[p].arg.format)]
  /\ UNCHANGED <<now, dataCache, reports, dashboards, lastPut, broadcaster, config, inventory, crm>>

\* exportReport after the timeout: the filename is built from the report the
\* lookup returned
ExportDone(p) ==
  /\ tasks[p].pc = "export"
  /\ tasks' = [tasks EXCEPT ![p].pc = "done",
                            ![p].result = Filename(tasks[p].report, tasks[p].arg.format)]
  /\ UNCHANGED <<now, dataCache, reports, dashboards, lastPut, broadcaster, config, inventory, crm>>

(* ------------------------------ dashboards ------------------------------ *)

getDashboard(p) ==
  /\ Call(p)
  /\ \E id \in DashboardKeys(dashboards) \cup {MissingDashboardId} :
       tasks' = [tasks EXCEPT ![p] =
         [IdleTask EXCEPT !.pc = "done", !.op = "getDashboard", !.n = tasks[p].n + 1,
                          !.arg = [id |-> id], !.result = DashboardsGet(dashboards, id)]]
  /\ UNCHANGED <<now, dataCache, reports, dashboards, lastPut, broadcaster, config, inventory, crm>>

getAllDashboards(p) ==
  /\ Call(p)
  /\ tasks' = [tasks EXCEPT ![p] =
       [IdleTask EXCEPT !.pc = "done", !.op = "getAllDashboards", !.n = tasks[p].n + 1,
                        !.result = DashboardValues(dashboards)]]
  /\ UNCHANGED <<now, dataCache, reports, dashboards, lastPut, broadcaster, config, inventory, crm>>

\* createDashboard: Date.now() for the id is t1, the two `new Date()` are t2 and t3
createDashboard(p) ==
  /\ Call(p)
  /\ \E dashboard \in Definitions, r \in Random, t1 \in Later(now) :
       \E t2 \in ClockReads(t1) : \E t3 \in ClockReads(t2) :
         LET newDashboard == Spread(dashboard, [id |-> DashboardId(t1, r),
                                                createdAt |-> t2, updatedAt |-> t3])
         IN /\ dashboards' = DashboardsSet(dashboards, newDashboard.id, newDashboard)
            /\ now' = t3
            /\ tasks' = [tasks EXCEPT ![p] =
                 [IdleTask EXCEPT !.pc = "done", !.op = "createDashboard",
                                  !.n = tasks[p].n + 1, !.arg = [dashboard |-> dashboard],
                                  !.result = newDashboard]]
  /\ UNCHANGED <<dataCache, reports, lastPut, broadcaster, config, inventory, crm>>

\* updateDashboard that merges the partial into the sample dashboard as it was
\* constructed, not as it is stored
updateDashboard_StaleRead(p) ==
  /\ Call(p)
  /\ \E id \in DashboardKeys(dashboards) \cup {MissingDashboardId}, updates \in Partials :
       LET dashboard == DashboardsGet(dashboards, id)
           read == IF id = SampleDashboardId
                     THEN sampleDashboard(dashboard.createdAt, dashboard.updatedAt)
                     ELSE dashboard
           call == [IdleTask EXCEPT !.pc = "done", !.op = "updateDashboard",
                                    !.n = tasks[p].n + 1,
                                    !.arg = [id |-> id, updates |-> updates]]
       IN IF dashboard # None
            THEN \E t \in Later(now) :
                   /\ now' = t
                   /\ dashboards' = DashboardsSet(dashboards, id,
                        Spread(Spread(read, updates), [updatedAt |-> t]))
                   /\ tasks' = [tasks EXCEPT ![p] = call]
            ELSE /\ tasks' = [tasks EXCEPT ![p] = call]
                 /\ UNCHANGED <<now, dashboards>>
  /\ UNCHANGED <<dataCache, reports, lastPut, broadcaster, config, inventory, crm>>

\* updateDashboard that stores the merged record whether or not the id exists
updateDashboard_Upsert(p) ==
  /\ Call(p)
  /\ \E id \in DashboardKeys(dashboards) \cup {MissingDashboardId}, updates \in Partials :
       LET dashboard == DashboardsGet(dashboards, id)
           base == IF dashboard # None THEN dashboard ELSE [id |-> id]
       IN \E t \in Later(now) :
            /\ now' = t
            /\ dashboards' = DashboardsSet(dashboards, id,
                               Spread(Spread(base, updates), [updatedAt |-> t]))
            /\ tasks' = [tasks EXCEPT ![p] =
                 [IdleTask EXCEPT !.pc = "done", !.op = "updateDashboard",
                                  !.n = tasks[p].n + 1,
                                  !.arg = [id |-> id, updates |-> updates]]]
  /\ UNCHANGED <<dataCache, reports, lastPut, broadcaster, config, inventory, crm>>

\* updateDashboard that keeps only the fields of the partial and the identity
updateDashboard_Replace(p) ==
  /\ Call(p)
  /\ \E id \in DashboardKeys(dashboards) \cup {MissingDashboardId}, updates \in Partials :
       LET dashboard == DashboardsGet(dashboards, id)
           call == [IdleTask EXCEPT !.pc = "done", !.op = "updateDashboard",
                                    !.n = tasks[p].n + 1,
                                    !.arg = [id |-> id, updates |-> updates]]
       IN IF dashboard # None
            THEN \E t \in Later(now) :
                   /\ now' = t
                   /\ dashboards' = DashboardsSet(dashboards, id,
                        Spread(Spread([dashboard EXCEPT !.widgets = <<>>], updates),
                               [updatedAt |-> t]))
                   /\ tasks' = [tasks EXCEPT ![p] = call]
            ELSE /\ tasks' = [tasks EXCEPT ![p] = call]
                 /\ UNCHANGED <<now, dashboards>>
  /\ UNCHANGED <<dataCache, reports, lastPut, broadcaster, config, inventory, crm>>

\* updateDashboard in which an updatedAt of the partial overrides the clock
updateDashboard_PartialWins(p) ==
  /\ Call(p)
  /\ \E id \in DashboardKeys(dashboards) \cup {MissingDashboardId}, updates \in Partials :
       LET dashboard == DashboardsGet(dashboards, id)
           call == [IdleTask EXCEPT !.pc = "done", !.op = "updateDashboard",
                                    !.n = tasks[p].n + 1,
                                    !.arg = [id |-> id, updates |-> updates]]
       IN IF dashboard # None
            THEN \E t \in Later(now) :
                   /\ now' = t
                   /\ dashboards' = DashboardsSet(dashboards, id,
                        Spread(Spread(dashboard, [updatedAt |-> t]), updates))
                   /\ tasks' = [tasks EXCEPT ![p] = call]
            ELSE /\ tasks' = [tasks EXCEPT ![p] = call]
                 /\ UNCHANGED <<now, dashboards>>
  /\ UNCHANGED <<dataCache, reports, lastPut, broadcaster, config, inventory, crm>>

\* updateDashboard: { ...dashboard, ...updates, updatedAt: new Date() } is stored
\* under id when id has a dashboard, otherwise nothing happens
updateDashboard(p) ==
  /\ Call(p)
  /\ \E id \in DashboardKeys(dashboards) \cup {MissingDashboardId}, updates \in Partials :
       LET dashboard == DashboardsGet(dashboards, id)
           call == [IdleTask EXCEPT !.pc = "done", !.op = "updateDashboard",
                                    !.n = tasks[p].n + 1,
                                    !.arg = [id |-> id, updates |-> updates]]
       IN IF dashboard # None
            THEN \E t \in Later(now) :
                   /\ now' = t
                   /\ dashboards' = DashboardsSet(dashboards, id,
                        Spread(Spread(dashboard, updates), [updatedAt |-> t]))
                   /\ tasks' = [tasks EXCEPT ![p] = call]
            ELSE /\ tasks' = [tasks EXCEPT ![p] = call]
                 /\ UNCHANGED <<now, dashboards>>
  /\ UNCHANGED <<dataCache, reports, lastPut, broadcaster, config, inventory, crm>>

(* ------------------------- alerts and real time ------------------------- *)

\* outcomes of Math.random() in checkAlerts, in hundredths
AlertDraws == {50, 75, 90}

LowStockAlert(t) ==
  [type |-> "warning", message |-> "5 items are running low on stock",
   severity |-> "medium", timestamp |-> t]

EquipmentAlert(t) ==
  [type |-> "error", message |-> "Lift 2 requires maintenance",
   severity |-> "high", timestamp |-> t]

\* checkAlerts that checks the equipment before the stock
checkAlerts_EquipmentFirst(p) ==
  /\ Call(p)
  /\ \E r1 \in AlertDraws, r2 \in AlertDraws :
       \E t1 \in (IF r2 > 80 THEN Later(now) ELSE {now}) :
         \E t2 \in (IF r1 > 70 THEN (IF r2 > 80 THEN ClockReads(t1) ELSE Later(now)) ELSE {t1}) :
           /\ now' = t2
           /\ tasks' = [tasks EXCEPT ![p] =
                [IdleTask EXCEPT !.pc = "done", !.op = "checkAlerts", !.n = tasks[p].n + 1,
                                 !.arg = [r1 |-> r1, r2 |-> r2],
                                 !.result = (IF r2 > 80 THEN <<EquipmentAlert(t1)>> ELSE <<>>)
                                            \o (IF r1 > 70 THEN <<LowStockAlert(t2)>> ELSE <<>>)]]
  /\ UNCHANGED <<dataCache, reports, dashboards, lastPut, broadcaster, config, inventory, crm>>

\* checkAlerts that keeps the list it returns in the data cache
checkAlerts_Cached(p) ==
  /\ Call(p)
  /\ \E r1 \in AlertDraws, r2 \in AlertDraws :
       \E t1 \in (IF r1 > 70 THEN Later(now) ELSE {now}) :
         \E t2 \in (IF r2 > 80 THEN (IF r1 > 70 THEN ClockReads(t1) ELSE Later(now)) ELSE {t1}) :
           LET alerts == (IF r1 > 70 THEN <<LowStockAlert(t1)>> ELSE <<>>)
                         \o (IF r2 > 80 THEN <<EquipmentAlert(t2)>> ELSE <<>>)
           IN /\ now' = t2
              /\ dataCache' = MapSet(dataCache, "alerts", [data |-> alerts, timestamp |-> t2])
              /\ tasks' = [tasks EXCEPT ![p] =
                   [IdleTask EXCEPT !.pc = "done", !.op = "checkAlerts", !.n = tasks[p].n + 1,
                                    !.arg = [r1 |-> r1, r2 |-> r2], !.result = alerts]]
  /\ UNCHANGED <<reports, dashboards, lastPut, broadcaster, config, inventory, crm>>

\* checkAlerts: it takes no argument and reads no state; each alert is pushed
\* when its Math.random() draw exceeds 0.7, respectively 0.8
checkAlerts(p) ==
  /\ Call(p)
  /\ \E r1 \in AlertDraws, r2 \in AlertDraws :
       \E t1 \in (IF r1 > 70 THEN Later(now) ELSE {now}) :
         \E t2 \in (IF r2 > 80 THEN (IF r1 > 70 THEN ClockReads(t1) ELSE Later(now)) ELSE {t1}) :
           /\ now' = t2
           /\ tasks' = [tasks EXCEPT ![p] =
                [IdleTask EXCEPT !.pc = "done", !.op = "checkAlerts", !.n = tasks[p].n + 1,
                                 !.arg = [r1 |-> r1, r2 |-> r2],
                                 !.result = (IF r1 > 70 THEN <<LowStockAlert(t1)>> ELSE <<>>)
                                            \o (IF r2 > 80 THEN <<EquipmentAlert(t2)>> ELSE <<>>)]]
  /\ UNCHANGED <<dataCache, reports, dashboards, lastPut, broadcaster, config, inventory, crm>>

RealTimeMetrics ==
  [currentJobs |-> 8, availableBays |-> 1, todayRevenue |-> 125075, todayJobs |-> 12,
   activeTechnicians |-> 3, queueLength |-> 4]

getRealTimeMetrics(p) ==
  /\ Call(p)
  /\ tasks' = [tasks EXCEPT ![p] =
       [IdleTask EXCEPT !.pc = "done", !.op = "getRealTimeMetrics", !.n = tasks[p].n + 1,
                        !.result = RealTimeMetrics]]
  /\ UNCHANGED <<now, dataCache, reports, dashboards, lastPut, broadcaster, config, inventory, crm>>

\* IntervalFires that runs only when no analytics call is in flight
IntervalFires_WaitsForCalls ==
  /\ broadcaster.timer = "running"
  /\ broadcaster.pc = "idle"
  /\ \A p \in Tasks : Free(p)
  /\ broadcaster' = [broadcaster EXCEPT !.pc = "metrics", !.emits = 0]
  /\ UNCHANGED <<now, dataCache, reports, dashboards, tasks, lastPut, config, inventory, crm>>

\* the interval elapses: the callback runs up to `await getRealTimeMetrics()`
IntervalFires ==
  /\ broadcaster.timer = "running"
  /\ broadcaster.pc = "idle"
  /\ broadcaster' = [broadcaster EXCEPT !.pc = "metrics", !.emits = 0]
  /\ UNCHANGED <<now, dataCache, reports, dashboards, tasks, lastPut, config, inventory, crm>>

\* the await resolves and io.emit('real-time-metrics', ...) returns
BroadcastEmit ==
  /\ broadcaster.pc = "metrics"
  /\ broadcaster' = [broadcaster EXCEPT !.pc = "idle", !.last = "emitted", !.emits = @ + 1,
                                        !.sent = [event |-> "real-time-metrics",
                                                  data |-> RealTimeMetrics, to |-> "all"]]
  /\ UNCHANGED <<now, dataCache, reports, dashboards, tasks, lastPut, config, inventory, crm>>

\* BroadcastFail without the try/catch: the rejection is unhandled and ends the process
BroadcastFail_Uncaught ==
  /\ broadcaster.pc = "metrics"
  /\ broadcaster' = [broadcaster EXCEPT !.pc = "idle", !.last = "thrown", !.timer = "stopped"]
  /\ UNCHANGED <<now, dataCache, reports, dashboards, tasks, lastPut, config, inventory, crm>>

\* the await rejects or io.emit throws: the catch block logs the error
BroadcastFail ==
  /\ broadcaster.pc = "metrics"
  /\ broadcaster' = [broadcaster EXCEPT !.pc = "idle", !.last = "logged"]
  /\ UNCHANGED <<now, dataCache, reports, dashboards, tasks, lastPut, config, inventory, crm>>

(* ------------------------------ inventory ------------------------------ *)

\* arguments of checkOutItem and returnItem
ItemIds == {"item-003", "item-404"}
Quantities == {0, 2}

ItemNotFound == "Item not found"
InsufficientStock == "Insufficient stock"

\* `txn-${Date.now()}-${Math.random().toString(36).substr(2, 9)}`
TxnId(t, r) == <<"txn", t, r>>

\* this.transactions.set(id, txn): a Map keeps the position of an existing key
TxnSet(ts, txn) ==
  IF \E i \in 1..Len(ts) : ts[i].id = txn.id
    THEN [i \in 1..Len(ts) |-> IF ts[i].id = txn.id THEN txn ELSE ts[i]]
    ELSE Append(ts, txn)

\* addTransaction that records the transaction and leaves the item as it is
addTransaction_LogOnly(transaction, r, t1, t2, t3) ==
  /\ items' = items
  /\ transactions' = TxnSet(transactions,
                            Spread(transaction, [id |-> TxnId(t1, r), timestamp |-> t2]))
  /\ now' = t2

\* addTransaction: it has no await, so its body runs inside the caller's step;
\* it sets the item's quantity to newQuantity and stores the transaction
addTransaction(transaction, r, t1, t2, t3) ==
  LET newTransaction == Spread(transaction, [id |-> TxnId(t1, r), timestamp |-> t2])
      item == MapGet(items, transaction.itemId)
  IN /\ items' = IF item # None
                   THEN [items EXCEPT ![transaction.itemId] =
                           [item EXCEPT !.quantity = transaction.newQuantity, !.updatedAt = t3]]
                   ELSE items
     /\ transactions' = TxnSet(transactions, newTransaction)
     /\ now' = IF item # None THEN t3 ELSE t2

\* the call record of a stock operation
StockCall(p, op, itemId, quantity) ==
  [IdleTask EXCEPT !.op = op, !.n = tasks[p].n + 1,
                   !.arg = [itemId |-> itemId, quantity |-> quantity]]

\* a stock operation throws before it has changed anything
StockFail(p, call, err) ==
  /\ tasks' = [tasks EXCEPT ![p] = [call EXCEPT !.pc = "done", !.err = err]]
  /\ UNCHANGED <<now, items, transactions, ledger>>

\* checkOutItem without the stock check
checkOutItem_NoStockCheck(p) ==
  /\ Call(p)
  /\ \E itemId \in ItemIds, quantity \in Quantities :
       LET item == MapGet(items, itemId)
           call == StockCall(p, "checkOutItem", itemId, quantity)
       IN IF item = None
            THEN StockFail(p, call, ItemNotFound)
            ELSE \E r \in Random, t1 \in Later(now) :
                   \E t2 \in ClockReads(t1) : \E t3 \in ClockReads(t2) :
                     /\ addTransaction([itemId |-> itemId, type |-> "out",
                                        quantity |-> quantity,
                                        previousQuantity |-> item.quantity,
                                        newQuantity |-> item.quantity - quantity,
                                        reason |-> "Technician checkout"], r, t1, t2, t3)
                     /\ ledger' = [ledger EXCEPT ![itemId].out = @ + quantity]
                     /\ tasks' = [tasks EXCEPT ![p] = [call EXCEPT !.pc = "txn"]]
  /\ UNCHANGED <<analytics, crm>>

\* checkOutItem up to `await this.addTransaction(...)`: the lookup, the two
\* checks and the body of addTransaction are one step
checkOutItem(p) ==
  /\ Call(p)
  /\ \E itemId \in ItemIds, quantity \in Quantities :
       LET item == MapGet(items, itemId)
           call == StockCall(p, "checkOutItem", itemId, quantity)
       IN IF item = None
            THEN StockFail(p, call, ItemNotFound)
            ELSE IF item.quantity < quantity
              THEN StockFail(p, call, InsufficientStock)
              ELSE \E r \in Random, t1 \in Later(now) :
                     \E t2 \in ClockReads(t1) : \E t3 \in ClockReads(t2) :
                       /\ addTransaction([itemId |-> itemId, type |-> "out",
                                          quantity |-> quantity,
                                          previousQuantity |-> item.quantity,
                                          newQuantity |-> item.quantity - quantity,
                                          reason |-> "Technician checkout"], r, t1, t2, t3)
                       /\ ledger' = [ledger EXCEPT ![itemId].out = @ + quantity]
                       /\ tasks' = [tasks EXCEPT ![p] = [call EXCEPT !.pc = "txn"]]
  /\ UNCHANGED <<analytics, crm>>

\* returnItem up to `await this.addTransaction(...)`
returnItem(p) ==
  /\ Call(p)
  /\ \E itemId \in ItemIds, quantity \in Quantities :
       LET item == MapGet(items, itemId)
           call == StockCall(p, "returnItem", itemId, quantity)
       IN IF item = None
            THEN StockFail(p, call, ItemNotFound)
            ELSE \E r \in Random, t1 \in Later(now) :
                   \E t2 \in ClockReads(t1) : \E t3 \in ClockReads(t2) :
                     /\ addTransaction([itemId |-> itemId, type |-> "return",
                                        quantity |-> quantity,
                                        previousQuantity |-> item.quantity,
                                        newQuantity |-> item.quantity + quantity,
                                        reason |-> "Technician return"], r, t1, t2, t3)
                     /\ ledger' = [ledger EXCEPT ![itemId].back = @ + quantity]
                     /\ tasks' = [tasks EXCEPT ![p] = [call EXCEPT !.pc = "txn"]]
  /\ UNCHANGED <<analytics, crm>>

\* the awaited addTransaction promise resolves and the stock operation returns
TransactionDone(p) ==
  /\ tasks[p].pc = "txn"
  /\ tasks' = [tasks EXCEPT ![p].pc = "done"]
  /\ UNCHANGED <<now, analytics, inventory, crm>>

(* ------------------------------ customers ------------------------------ *)

\* arguments of addServiceRecord: Omit<ServiceRecord, 'id' | 'createdAt'>
ServiceRecords ==
  { [customerId |-> c, vehicleId |-> v, serviceDate |-> 5, mileage |-> 47000,
     totalAmount |-> 4999] : c \in {"cust-001", "cust-404"}, v \in {"veh-002", "veh-404"} }

\* `sr-${Date.now()}-${Math.random().toString(36).substr(2, 9)}`
ServiceRecordId(t, r) == <<"sr", t, r>>

\* this.serviceRecords.set(id, record)
ServiceRecordsSet(rs, rec) ==
  IF \E i \in 1..Len(rs) : rs[i].id = rec.id
    THEN [i \in 1..Len(rs) |-> IF rs[i].id = rec.id THEN rec ELSE rs[i]]
    ELSE Append(rs, rec)

ServiceRecordsGet(rs, id) ==
  IF \E i \in 1..Len(rs) : rs[i].id = id
    THEN rs[CHOOSE i \in 1..Len(rs) : rs[i].id = id]
    ELSE None

\* addServiceRecord: it has no await; it stores the record, then updates the
\* vehicle and the customer the record refers to, if they exist
addServiceRecord(p) ==
  /\ Call(p)
  /\ \E record \in ServiceRecords, r \in Random, t1 \in Later(now) :
       \E t2 \in ClockReads(t1) :
         LET newRecord == Spread(record, [id |-> ServiceRecordId(t1, r), createdAt |-> t2])
             vehicle == MapGet(vehicles, record.vehicleId)
             customer == MapGet(customers, record.customerId)
         IN \E t3 \in (IF vehicle # None THEN ClockReads(t2) ELSE {t2}) :
              \E t4 \in (IF customer # None THEN ClockReads(t3) ELSE {t3}) :
                /\ serviceRecords' = ServiceRecordsSet(serviceRecords, newRecord)
                /\ vehicles' = IF vehicle # None
                     THEN [vehicles EXCEPT ![record.vehicleId] =
                             [vehicle EXCEPT !.mileage = record.mileage,
                                             !.lastServiceDate = record.serviceDate,
                                             !.updatedAt = t3]]
                     ELSE vehicles
                /\ customers' = IF customer # None
                     THEN [customers EXCEPT ![record.customerId] =
                             [customer EXCEPT !.totalSpent = @ + record.totalAmount,
                                              !.lastVisit = record.serviceDate,
                                              !.updatedAt = t4]]
                     ELSE customers
                /\ now' = t4
                /\ tasks' = [tasks EXCEPT ![p] =
                     [IdleTask EXCEPT !.pc = "done", !.op = "addServiceRecord",
                                      !.n = tasks[p].n + 1, !.arg = [record |-> record],
                                      !.result = newRecord]]
  /\ UNCHANGED <<analytics, inventory>>

(* --------------------------- specifications ---------------------------- *)

\* the aggregation path: concurrent generateAnalyticsData calls
Next ==
  \/ \E p \in Tasks : generateAnalyticsData(p)
  \/ \E p \in Tasks : ResumeFacet(p)
  \/ \E p \in Tasks : PutBundle(p)

Spec == Init /\ [][Next]_vars

\* the report store: concurrent generateReport, getReport, getAllReports and
\* generateAnalyticsData calls on the reports' time range
NextReports ==
  \/ \E p \in Tasks : generateAnalyticsDataIn(p, ReportRanges)
  \/ \E p \in Tasks : generateReport(p)
  \/ \E p \in Tasks : ResumeFacet(p)
  \/ \E p \in Tasks : PutBundle(p)
  \/ \E p \in Tasks : StoreReport(p)
  \/ \E p \in Tasks : getReport(p)
  \/ \E p \in Tasks : getAllReports(p)

SpecReports == Init /\ [][NextReports]_vars

\* the aggregation path with a DataProvider whose facet fetches may fail
NextDP ==
  \/ Next
  \/ \E p \in Tasks : FacetFail(p)

SpecDP == Init /\ [][NextDP]_vars

\* the report store with exports: generateReport and exportReport calls
NextExport ==
  \/ \E p \in Tasks : generateReportIn(p, ReportRanges, ExportNames)
  \/ \E p \in Tasks : ResumeFacet(p)
  \/ \E p \in Tasks : PutBundle(p)
  \/ \E p \in Tasks : StoreReport(p)
  \/ \E p \in Tasks : exportReport(p)
  \/ \E p \in Tasks : ExportDone(p)

SpecExport == Init /\ [][NextExport]_vars

\* the dashboard store
NextDashboards ==
  \/ \E p \in Tasks : getDashboard(p)
  \/ \E p \in Tasks : getAllDashboards(p)
  \/ \E p \in Tasks : createDashboard(p)
  \/ \E p \in Tasks : updateDashboard(p)

SpecDashboards == Init /\ [][NextDashboards]_vars

\* the stock operations of the InventoryModule, called concurrently
NextInventory ==
  \/ \E p \in Tasks : checkOutItem(p)
  \/ \E p \in Tasks : returnItem(p)
  \/ \E p \in Tasks : TransactionDone(p)

SpecInventory == Init /\ [][NextInventory]_vars

\* service records added to the CustomersModule
NextCustomers == \E p \in Tasks : addServiceRecord(p)

SpecCustomers == Init /\ [][NextCustomers]_vars

\* the broadcaster next to analytics calls, report generation and exports
ExportName == {"Monthly Ops"}

NextBroadcast ==
  \/ \E p \in Tasks : generateAnalyticsDataIn(p, ReportRanges)
  \/ \E p \in Tasks : generateReportIn(p, ReportRanges, ExportName)
  \/ \E p \in Tasks : ResumeFacet(p)
  \/ \E p \in Tasks : PutBundle(p)
  \/ \E p \in Tasks : StoreReport(p)
  \/ \E p \in Tasks : exportReport(p)
  \/ \E p \in Tasks : ExportDone(p)
  \/ IntervalFires
  \/ BroadcastEmit

SpecBroadcast == Init /\ [][NextBroadcast]_vars

\* the alert check next to the operations that fill the three stores
NextAlerts ==
  \/ \E p \in Tasks : generateReportIn(p, ReportRanges, ExportName)
  \/ \E p \in Tasks : ResumeFacet(p)
  \/ \E p \in Tasks : PutBundle(p)
  \/ \E p \in Tasks : StoreReport(p)
  \/ \E p \in Tasks : updateDashboard(p)
  \/ \E p \in Tasks : checkAlerts(p)

SpecAlerts == Init /\ [][NextAlerts]_vars

\* the alert check and the real-time metrics, requested by callers and
\* broadcast by the server's interval timer
NextRealtime ==
  \/ \E p \in Tasks : checkAlerts(p)
  \/ \E p \in Tasks : getRealTimeMetrics(p)
  \/ IntervalFires
  \/ BroadcastEmit
  \/ BroadcastFail

\* setInterval keeps firing and a pending await is always resumed
SpecRealtime ==
  /\ Init /\ [][NextRealtime]_vars
  /\ WF_vars(IntervalFires)
  /\ WF_vars(BroadcastEmit \/ BroadcastFail)

\* time ranges a caller of generateReport can pass (timeRange: string)
AnyRanges == {"month", "fortnight"}

\* generateReport with an arbitrary time-range string
NextRanges ==
  \/ \E p \in Tasks : generateReportIn(p, AnyRanges, ReportNames)
  \/ \E p \in Tasks : ResumeFacet(p)
  \/ \E p \in Tasks : PutBundle(p)
  \/ \E p \in Tasks : StoreReport(p)

SpecRanges == Init /\ [][NextRanges]_vars

\* the aggregation path and the broadcast timer of a server constructed with
\* any configuration
NextConfig ==
  \/ \E p \in Tasks : generateAnalyticsDataIn(p, ReportRanges)
  \/ \E p \in Tasks : ResumeFacet(p)
  \/ \E p \in Tasks : PutBundle(p)
  \/ IntervalFires
  \/ BroadcastEmit

SpecConfig == InitConfig /\ [][NextConfig]_vars

\* the report store with a DataProvider whose facet fetches may fail
NextReportsDP ==
  \/ \E p \in Tasks : generateReport(p)
  \/ \E p \in Tasks : ResumeFacet(p)
  \/ \E p \in Tasks : PutBundle(p)
  \/ \E p \in Tasks : FacetFail(p)
  \/ \E p \in Tasks : StoreReport(p)
  \/ \E p \in Tasks : RejectReport(p)

SpecReportsDP == Init /\ [][NextReportsDP]_vars

(* ------------------------------ properties ----------------------------- *)

AnalyticsOps == {"generateAnalyticsData", "generateReport"}

\* the task whose put on the key came last (0: no put yet)
LastPut(key) == IF key \in DOMAIN lastPut THEN lastPut[key] ELSE 0

\* the step in which task p starts a call
StartsCall(p) == tasks'[p].n = tasks[p].n + 1

\* the step in which task p looks the cache up
LooksUp(p) == StartsCall(p) /\ tasks'[p].op \in AnalyticsOps

\* the step in which task p stores its bundle in the cache
Puts(p) == tasks[p].pc = "trends" /\ tasks'[p].pc # "trends" /\ tasks'[p].err = "none"

\* the step in which a facet fetch of task p fails
Fails(p) == tasks[p].pc \in FacetSet /\ tasks'[p].err # "none"

\* the call of task p has returned a bundle it computed itself
ReturnedMiss(p) ==
  /\ tasks[p].op \in AnalyticsOps /\ tasks[p].pc \in {"report", "done"}
  /\ tasks[p].err = "none" /\ ~tasks[p].hit

\* the call of task p has returned the cached bundle
ReturnedHit(p) ==
  /\ tasks[p].op \in AnalyticsOps /\ tasks[p].pc \in {"report", "done"}
  /\ tasks[p].err = "none" /\ tasks[p].hit

\* C1: a call that starts while the bucket has an entry younger than the TTL
\* is a cache hit: it returns the cached bundle at once, invokes no facet
\* generator and leaves the cache alone, so two such calls invoke the
\* generators once in total.
C1_HitWithinTtl ==
  [][\A p \in Tasks :
       LooksUp(p) =>
         LET e == MapGet(dataCache, cacheKey(tasks'[p].timeRange)) IN
           (e # None /\ now' - e.timestamp < 5 * 60 * 1000) =>
             /\ tasks'[p].invoked = 0
             /\ tasks'[p].pc = Settled(tasks'[p].op)
             /\ tasks'[p].data = e.data
             /\ dataCache' = dataCache]_vars

\* a second call returned the bundle the first call computed and cached
C1_Witness ==
  \E p \in Tasks, q \in Tasks :
    /\ p # q /\ ReturnedMiss(q) /\ ReturnedHit(p)
    /\ tasks[q].invoked = 6 /\ tasks[p].invoked = 0
    /\ tasks[p].timeRange = tasks[q].timeRange
    /\ tasks[p].data = tasks[q].data
    /\ MapGet(dataCache, cacheKey(tasks[q].timeRange)).data = tasks[q].data

\* C2: a call that finds an entry at least TTL old misses and calls the
\* generators; when it stores its bundle all six facets have been fetched and
\* the entry is replaced by one holding that bundle, stamped with the time of
\* the put, which is later than the stale entry's cachedAt.
C2_RefreshAfterTtl ==
  [][\A p \in Tasks :
       /\ LooksUp(p) =>
            LET e == MapGet(dataCache, cacheKey(tasks'[p].timeRange)) IN
              (e # None /\ now' - e.timestamp >= 5 * 60 * 1000) =>
                /\ tasks'[p].pc = "revenue" /\ tasks'[p].invoked = 1
                /\ tasks'[p].cached = e
       /\ (Puts(p) /\ tasks[p].cached # None) =>
            LET e2 == MapGet(dataCache', cacheKey(tasks[p].timeRange)) IN
              /\ tasks'[p].invoked = 6 /\ Len(tasks'[p].facets) = 6
              /\ e2.data = tasks'[p].data
              /\ e2.timestamp = now'
              /\ e2.timestamp > tasks[p].cached.timestamp]_vars

\* a call that found a stale entry has replaced it
C2_Witness ==
  \E p \in Tasks :
    /\ ReturnedMiss(p) /\ tasks[p].cached # None /\ tasks[p].invoked = 6
    /\ LET e == MapGet(dataCache, cacheKey(tasks[p].timeRange)) IN
         /\ e.data = tasks[p].data
         /\ e.timestamp >= tasks[p].cached.timestamp + cacheExpiry
         /\ e.data # tasks[p].cached.data

\* C3: the lookup misses exactly when the bucket has no entry or the entry is
\* at least 5 minutes old.
C3_MissIffAbsentOrStale ==
  [][\A p \in Tasks :
       LooksUp(p) =>
         LET e == MapGet(dataCache, cacheKey(tasks'[p].timeRange))
             miss == tasks'[p].pc = "revenue" /\ ~tasks'[p].hit
             hit == tasks'[p].pc = Settled(tasks'[p].op) /\ tasks'[p].hit
         IN /\ miss <=> (e = None \/ now' - e.timestamp >= 5 * 60 * 1000)
            /\ hit <=> ~miss]_vars

\* one call has just missed on an entry exactly TTL old that another call hit
\* before
C3_Witness ==
  \E p \in Tasks, q \in Tasks :
    /\ tasks[p].pc = "revenue" /\ tasks[p].cached # None
    /\ now - tasks[p].cached.timestamp = cacheExpiry
    /\ ReturnedHit(q) /\ tasks[q].cached = tasks[p].cached

\* C4: a failing facet fetch fails the call with the provider's error and
\* writes nothing: the failing step leaves the cache as it is, and the only
\* steps that change the cache are puts of calls that did not fail.
C4_FailureLeavesCache ==
  [][/\ \A p \in Tasks :
          Fails(p) =>
            /\ dataCache' = dataCache
            /\ tasks'[p].err = "DataUnavailable"
            /\ tasks'[p].result = None
            /\ tasks'[p].pc = Settled(tasks[p].op)
     /\ dataCache' # dataCache => \E p \in Tasks : Puts(p)]_vars

\* a call failed after fetching some facets, on a stale entry that is still
\* the cache entry
C4_Witness ==
  \E p \in Tasks :
    /\ tasks[p].err = "DataUnavailable" /\ tasks[p].pc = "done"
    /\ Len(tasks[p].facets) >= 1
    /\ tasks[p].cached # None
    /\ MapGet(dataCache, cacheKey(tasks[p].timeRange)) = tasks[p].cached

\* C5: a call that missed returns the bundle it assembled from the facets it
\* fetched itself, and the entry of a bucket is the bundle of the call whose
\* put came last.
C5_LastWriteWins ==
  \A p \in Tasks :
    ReturnedMiss(p) =>
      /\ Len(tasks[p].facets) = 6
      /\ tasks[p].data = AnalyticsData(tasks[p].facets, tasks[p].data.generatedAt)
      /\ tasks[p].op = "generateAnalyticsData" => tasks[p].result = tasks[p].data
      /\ LastPut(cacheKey(tasks[p].timeRange)) = p =>
            MapGet(dataCache, cacheKey(tasks[p].timeRange)).data = tasks[p].data

\* two calls both found the bucket empty, both computed a bundle and both
\* stored it; the entry is the later one's
C5_Witness ==
  \E p \in Tasks, q \in Tasks :
    /\ p # q /\ ReturnedMiss(p) /\ ReturnedMiss(q)
    /\ tasks[p].timeRange = tasks[q].timeRange
    /\ tasks[p].cached = None /\ tasks[q].cached = None
    /\ tasks[p].invoked = 6 /\ tasks[q].invoked = 6
    /\ tasks[p].data # tasks[q].data
    /\ LastPut(cacheKey(tasks[p].timeRange)) = p
    /\ MapGet(dataCache, cacheKey(tasks[p].timeRange)).data = tasks[p].data

\* the step in which task p stores and returns its report
Stores(p) == tasks[p].pc = "report" /\ tasks'[p].pc = "done" /\ tasks'[p].err = "none"

\* generateReport of task p has returned a report
ReturnedReport(p) ==
  tasks[p].op = "generateReport" /\ tasks[p].pc = "done" /\ tasks[p].err = "none"

\* C6: the report generateReport returns carries the bundle its own
\* generateAnalyticsData call returned: on a fresh entry the cached bundle, on a
\* miss the newly assembled bundle, which the put of that call makes the
\* bucket's cache entry; the report is stored as returned.
C6_ReportBundle ==
  [][\A p \in Tasks :
       /\ (LooksUp(p) /\ tasks'[p].op = "generateReport") =>
            LET e == MapGet(dataCache, cacheKey(tasks'[p].timeRange)) IN
              (e # None /\ now' - e.timestamp < 5 * 60 * 1000) =>
                 tasks'[p].pc = "report" /\ tasks'[p].data = e.data
       /\ (Puts(p) /\ tasks[p].op = "generateReport") =>
            /\ tasks'[p].pc = "report"
            /\ tasks'[p].data = AnalyticsData(tasks'[p].facets, tasks'[p].data.generatedAt)
            /\ MapGet(dataCache', cacheKey(tasks[p].timeRange)).data = tasks'[p].data
       /\ Stores(p) =>
            /\ tasks'[p].result.data = tasks[p].data
            /\ ReportsGet(reports', tasks'[p].result.id) = tasks'[p].result]_vars

\* one generateReport computed and cached a bundle, a second one returned a
\* report with that cached bundle
C6_Witness ==
  \E p \in Tasks, q \in Tasks :
    /\ p # q /\ ReturnedReport(p) /\ ReturnedReport(q)
    /\ tasks[p].hit /\ ~tasks[q].hit
    /\ tasks[p].result.data = tasks[q].result.data
    /\ tasks[p].result.data = MapGet(dataCache, cacheKey(tasks[p].timeRange)).data
    /\ tasks[p].result.id # tasks[q].result.id

\* C7: a stored report is retained and never changes: after every step, every
\* report of the store is still returned by get under its id with the same
\* id, name, type, bundle, generatedBy and generatedAt.
C7_ReportsImmutable ==
  [][\A i \in 1..Len(reports) : ReportsGet(reports', reports[i].id) = reports[i]]_vars

\* C8: every generateReport stores its report under an id no stored report
\* has: the store grows by one and the reports already stored are untouched.
C8_FreshId ==
  [][\A p \in Tasks :
       Stores(p) =>
         /\ tasks'[p].result.id \notin StoredIds
         /\ Len(reports') = Len(reports) + 1
         /\ \A i \in 1..Len(reports) : reports'[i] = reports[i]]_vars

\* C9: get(r.id) returns the report r that generate returned; get of an id
\* that is not in the store returns null; get changes no state.
C9_GetRoundTrip ==
  [][\A p \in Tasks :
       (StartsCall(p) /\ tasks'[p].op = "getReport") =>
         /\ \A q \in Tasks :
              (ReturnedReport(q) /\ tasks[q].result.id = tasks'[p].arg) =>
                 tasks'[p].result = tasks[q].result
         /\ tasks'[p].arg \notin StoredIds => tasks'[p].result = None
         /\ UNCHANGED <<reports, dataCache>>]_vars

\* the position of the report with this id in the store's insertion order
Position(id) == CHOOSE i \in 1..Len(reports) : reports[i].id = id

\* C10: getAllReports returns every stored report exactly once, newest first,
\* and reports with equal generatedAt in the order the store holds them.
C10_ListSorted ==
  [][\A p \in Tasks :
       (StartsCall(p) /\ tasks'[p].op = "getAllReports") =>
         LET list == tasks'[p].result IN
           /\ Len(list) = Len(reports)
           /\ \A i \in 1..Len(reports) :
                Cardinality({ j \in 1..Len(list) : list[j] = reports[i] }) = 1
           /\ \A j \in 1..Len(list), k \in 1..Len(list) :
                j < k =>
                  /\ list[j].generatedAt >= list[k].generatedAt
                  /\ list[j].generatedAt = list[k].generatedAt =>
                       Position(list[j].id) < Position(list[k].id)]_vars

\* a listing that reverses the insertion order of two reports generated at
\* different times
C10_Witness ==
  \E p \in Tasks :
    /\ tasks[p].op = "getAllReports" /\ tasks[p].pc = "done"
    /\ Len(reports) = 2 /\ Len(tasks[p].result) = 2
    /\ tasks[p].result[1] = reports[2] /\ tasks[p].result[2] = reports[1]
    /\ reports[2].generatedAt > reports[1].generatedAt

\* the step in which task p starts operation op
Starts(p, op) == StartsCall(p) /\ tasks'[p].op = op

\* C11: exportReport with an id that has no report fails with the not-found
\* error, returns no filename and leaves the report store, the dashboard store
\* and the cache unchanged.
C11_ExportMissing ==
  [][\A p \in Tasks :
       (Starts(p, "exportReport") /\ ReportsGet(reports, tasks'[p].arg.reportId) = None) =>
         /\ tasks'[p].pc = "done"
         /\ tasks'[p].err = ReportNotFound
         /\ tasks'[p].result = None
         /\ UNCHANGED <<reports, dashboards, dataCache>>]_vars

C11_Witness ==
  \E p \in Tasks :
    /\ tasks[p].op = "exportReport" /\ tasks[p].pc = "done"
    /\ tasks[p].err = ReportNotFound
    /\ Len(reports) > 0

\* C12: exportReport of a stored report returns name, UTC day of generatedAt and
\* format of the report its lookup found, whatever is stored during its delay;
\* two exports of one report with one format return the same filename, and no
\* step of an export changes the report store, the dashboard store or the cache.
C12_ExportFilename ==
  [][\A p \in Tasks :
       /\ (Starts(p, "exportReport") /\ ReportsGet(reports, tasks'[p].arg.reportId) # None) =>
            /\ tasks'[p].pc = "export"
            /\ tasks'[p].report = ReportsGet(reports, tasks'[p].arg.reportId)
            /\ UNCHANGED <<reports, dashboards, dataCache>>
       /\ (tasks[p].pc = "export" /\ tasks'[p].pc = "done") =>
            /\ tasks'[p].err = "none"
            /\ tasks'[p].result = <<tasks[p].report.name,
                                    tasks[p].report.generatedAt \div (24 * 60 * 60 * 1000),
                                    tasks[p].arg.format>>
            /\ UNCHANGED <<reports, dashboards, dataCache>>
       /\ \A q \in Tasks :
            ( /\ tasks'[p].op = "exportReport" /\ tasks'[q].op = "exportReport"
              /\ tasks'[p].pc = "done" /\ tasks'[q].pc = "done"
              /\ tasks'[p].err = "none" /\ tasks'[q].err = "none"
              /\ tasks'[p].report = tasks'[q].report
              /\ tasks'[p].arg.format = tasks'[q].arg.format ) =>
            tasks'[p].result = tasks'[q].result]_vars

\* an export has returned the filename of the report it looked up although the
\* store now holds another report under that id
C12_Witness ==
  \E p \in Tasks :
    /\ tasks[p].op = "exportReport" /\ tasks[p].pc = "done" /\ tasks[p].err = "none"
    /\ ReportsGet(reports, tasks[p].arg.reportId) # tasks[p].report
    /\ ReportsGet(reports, tasks[p].arg.reportId).name # tasks[p].report.name
    /\ tasks[p].result[1] = tasks[p].report.name

\* the step in which task p updates the dashboard stored under an existing id
Updates(p) ==
  Starts(p, "updateDashboard") /\ DashboardsGet(dashboards, tasks'[p].arg.id) # None

\* the fields of a dashboard that an update of the name leaves alone
NameFrame == {"id", "description", "widgets", "layout", "isPublic", "createdBy", "createdAt"}

\* C13: an update of an existing dashboard changes only the fields of the partial
\* and updatedAt of that record (with the partial {name: X}: only name and
\* updatedAt); every other dashboard is unchanged and no record is added.
C13_UpdateFrame ==
  [][\A p \in Tasks :
       Updates(p) =>
         LET id == tasks'[p].arg.id
             updates == tasks'[p].arg.updates
             old == DashboardsGet(dashboards, id)
             new == DashboardsGet(dashboards', id)
         IN /\ DOMAIN new = DOMAIN old
            /\ \A f \in (DOMAIN old) \ ((DOMAIN updates) \cup {"updatedAt"}) : new[f] = old[f]
            /\ \A f \in (DOMAIN updates) \ {"updatedAt"} : new[f] = updates[f]
            /\ (updates = [name |-> "X"]) =>
                 /\ new.name = "X"
                 /\ \A f \in NameFrame : new[f] = old[f]
            /\ Len(dashboards') = Len(dashboards)
            /\ \A i \in 1..Len(dashboards) :
                 dashboards[i].key # id => dashboards'[i] = dashboards[i]]_vars

\* the sample dashboard has been renamed and is otherwise as constructed
C13_Witness ==
  LET d == DashboardsGet(dashboards, SampleDashboardId) IN
  /\ d.name = "X"
  /\ d.updatedAt > d.createdAt
  /\ \A f \in NameFrame : d[f] = sampleDashboard(0, 0)[f]
  /\ Len(dashboards) > 1

\* C14: an update with an id that has no dashboard settles without error and
\* without result, creates no record and changes no state.
C14_UpdateMissing ==
  [][\A p \in Tasks :
       (Starts(p, "updateDashboard") /\ DashboardsGet(dashboards, tasks'[p].arg.id) = None) =>
         /\ tasks'[p].pc = "done"
         /\ tasks'[p].err = "none"
         /\ tasks'[p].result = None
         /\ \A q \in Tasks \ {p} : tasks'[q] = tasks[q]
         /\ UNCHANGED <<now, dataCache, reports, dashboards, lastPut, broadcaster, config, inventory, crm>>]_vars

C14_Witness ==
  \E p \in Tasks :
    /\ tasks[p].op = "updateDashboard" /\ tasks[p].pc = "done"
    /\ tasks[p].arg.id = MissingDashboardId
    /\ DashboardsGet(dashboards, MissingDashboardId) = None

\* C15: createDashboard returns and stores a dashboard under an id no existing
\* dashboard has, with createdAt = updatedAt and the definition's fields as
\* supplied, and leaves the existing dashboards unchanged.
C15_CreateFresh ==
  [][\A p \in Tasks :
       Starts(p, "createDashboard") =>
         LET d == tasks'[p].result
             definition == tasks'[p].arg.dashboard
         IN /\ d.id \notin DashboardKeys(dashboards)
            /\ d.createdAt = d.updatedAt
            /\ \A f \in DOMAIN definition : d[f] = definition[f]
            /\ DashboardsGet(dashboards', d.id) = d
            /\ Len(dashboards') = Len(dashboards) + 1
            /\ \A i \in 1..Len(dashboards) : dashboards'[i] = dashboards[i]]_vars

\* C16: the updatedAt of a stored dashboard never decreases, and a successful
\* update sets it to the clock reading of the update, not earlier than the
\* previous value, also when the partial carries an updatedAt.
C16_UpdatedAtMonotonic ==
  [][/\ \A k \in DashboardKeys(dashboards) :
          DashboardsGet(dashboards', k).updatedAt >= DashboardsGet(dashboards, k).updatedAt
     /\ \A p \in Tasks :
          Updates(p) =>
            LET id == tasks'[p].arg.id IN
            /\ DashboardsGet(dashboards', id).updatedAt = now'
            /\ now' >= DashboardsGet(dashboards, id).updatedAt]_vars

\* an update whose partial carried updatedAt = 0 has left a later updatedAt
C16_Witness ==
  \E p \in Tasks :
    /\ tasks[p].op = "updateDashboard" /\ tasks[p].pc = "done"
    /\ tasks[p].arg.updates = [updatedAt |-> 0]
    /\ DashboardsGet(dashboards, tasks[p].arg.id) # None
    /\ DashboardsGet(dashboards, tasks[p].arg.id).updatedAt > 0
    /\ \E q \in Tasks \ {p} : tasks[q].op = "updateDashboard" /\ tasks[q].n > 0

\* the ids of the dashboards getAllDashboards returns
ListedIds(ds) == { DashboardValues(ds)[i].id : i \in 1..Len(ds) }

\* C17: no step removes an id from the ids of the listed dashboards, and
\* 'dashboard-001' always has a dashboard.
C17_NoDeletion ==
  [][/\ ListedIds(dashboards) \subseteq ListedIds(dashboards')
     /\ DashboardsGet(dashboards', SampleDashboardId) # None]_vars

\* C18: checkAlerts returns an empty list and does not fail when no alert
\* condition holds; the module has no inventory and no equipment state and
\* checkAlerts is given none, so this is every call.
C18_NoConditionNoAlerts ==
  [][\A p \in Tasks :
       Starts(p, "checkAlerts") =>
         /\ tasks'[p].err = "none"
         /\ tasks'[p].result = <<>>]_vars

\* C19: a failing tick does not end the broadcast timer: the failure is caught
\* and logged in that tick, the timer keeps running, and after a failed tick a
\* later tick again computes the snapshot.
C19_TimerSurvives ==
  /\ [](broadcaster.timer = "running" /\ broadcaster.last # "thrown")
  /\ ((broadcaster.last = "logged" /\ broadcaster.pc = "idle") ~> (broadcaster.pc = "metrics"))

\* a tick is under way after a tick that failed
C19_Witness ==
  /\ broadcaster.last = "logged"
  /\ broadcaster.pc = "metrics"
  /\ broadcaster.timer = "running"

\* type Parameters<generateAnalyticsData>[0]: 'day' | 'week' | 'month' | 'quarter' | 'year'
Buckets == {"day", "week", "month", "quarter", "year"}

\* C20: a time range outside the five buckets is rejected by
\* generateAnalyticsData and by generateReport: the cache has no key other than
\* the five buckets' and a call with such a range ends with an error and stores
\* no report.
C20_RangeValidated ==
  /\ \A k \in DOMAIN dataCache : \E b \in Buckets : k = cacheKey(b)
  /\ \A p \in Tasks :
       (tasks[p].op \in AnalyticsOps /\ tasks[p].timeRange \notin Buckets) =>
         /\ tasks[p].pc = "done"
         /\ tasks[p].err # "none"
         /\ tasks[p].result = None

\* an alert list without its timestamps: kinds, messages and severities in order
AlertKinds(alerts) ==
  [i \in 1..Len(alerts) |->
     [type |-> alerts[i].type, message |-> alerts[i].message, severity |-> alerts[i].severity]]

\* C21: checkAlerts is deterministic: it is given no bundle and no snapshot and
\* reads no state, so any two evaluations return the same kinds, messages and
\* severities in the same order.
C21_AlertsDeterministic ==
  \A p \in Tasks, q \in Tasks :
    ( /\ tasks[p].op = "checkAlerts" /\ tasks[p].pc = "done"
      /\ tasks[q].op = "checkAlerts" /\ tasks[q].pc = "done" ) =>
    AlertKinds(tasks[p].result) = AlertKinds(tasks[q].result)

\* C22: two bundles computed for the same time range have equal facets and
\* differ at most in generatedAt.
C22_BundlesInterchangeable ==
  \A p \in Tasks, q \in Tasks :
    (ReturnedMiss(p) /\ ReturnedMiss(q) /\ tasks[p].timeRange = tasks[q].timeRange) =>
    \A f \in FacetSet : tasks[p].data[f] = tasks[q].data[f]

\* the cache TTL a configuration supplies, 5 minutes when it supplies none
TtlOf(c) == IF "cacheTtlMs" \in DOMAIN c THEN c.cacheTtlMs ELSE 5 * 60 * 1000

\* the broadcast period a configuration supplies, 5 seconds when it supplies none
PeriodOf(c) == IF "broadcastIntervalMs" \in DOMAIN c THEN c.broadcastIntervalMs ELSE 5 * 1000

\* C23: the cache's hit/miss decision uses the TTL and the broadcast timer the
\* period that the configuration supplies, 5 minutes and 5 seconds when it
\* supplies none.
C23_ConfigApplied ==
  [][/\ broadcaster'.period = PeriodOf(config)
     /\ \A p \in Tasks :
          LooksUp(p) =>
            LET e == MapGet(dataCache, cacheKey(tasks'[p].timeRange)) IN
            tasks'[p].hit <=> (e # None /\ now' - e.timestamp < TtlOf(config))]_vars

\* C24: a lookup, hit or miss, leaves the whole cache as it is: a hit does not
\* refresh the entry and a miss does not remove the stale entry; the cache
\* changes only in the put of a call that has fetched its six facets, and only
\* in the entry of that call's time range.
C24_LookupPure ==
  [][/\ \A p \in Tasks : LooksUp(p) => dataCache' = dataCache
     /\ DOMAIN dataCache \subseteq DOMAIN dataCache'
     /\ (dataCache' # dataCache) =>
          \E p \in Tasks :
            /\ Puts(p)
            /\ Len(tasks'[p].facets) = 6
            /\ \A k \in DOMAIN dataCache :
                 k # cacheKey(tasks[p].timeRange) => dataCache'[k] = dataCache[k]]_vars

\* a call has hit an entry that has since become stale with its timestamp
\* unchanged, and the call that missed on it is still computing while the stale
\* entry is in the cache
C24_Witness ==
  \E p \in Tasks, q \in Tasks :
    /\ ReturnedHit(p)
    /\ tasks[q].pc \in FacetSet /\ tasks[q].cached # None
    /\ tasks[q].timeRange = tasks[p].timeRange
    /\ tasks[q].cached = tasks[p].cached
    /\ MapGet(dataCache, cacheKey(tasks[q].timeRange)) = tasks[q].cached
    /\ now - tasks[q].cached.timestamp >= cacheExpiry

\* C25: a failure is not remembered and stale data is not served: a lookup that
\* finds no fresh entry, also after a call for the time range has failed,
\* misses and calls the first generator; a lookup that returns a cached bundle
\* found it younger than the TTL; a failing call writes nothing but its own outcome.
C25_NoNegativeCaching ==
  [][\A p \in Tasks :
       /\ LooksUp(p) =>
            LET e == MapGet(dataCache, cacheKey(tasks'[p].timeRange))
                fresh == e # None /\ now' - e.timestamp < 5 * 60 * 1000
            IN /\ ~fresh => (~tasks'[p].hit /\ tasks'[p].invoked = 1 /\ tasks'[p].err = "none"
                              /\ tasks'[p].pc = "revenue" /\ tasks'[p].data = None)
               /\ tasks'[p].hit => (fresh /\ tasks'[p].data = e.data)
       /\ Fails(p) =>
            /\ tasks'[p].data = None /\ tasks'[p].result = None
            /\ \A q \in Tasks \ {p} : tasks'[q] = tasks[q]
            /\ UNCHANGED <<now, dataCache, reports, dashboards, lastPut>>]_vars

\* a call that started after a call for its time range had failed found a
\* stale entry and is fetching the facets again
C25_Witness ==
  \E p \in Tasks :
    /\ tasks[p].afterFail
    /\ tasks[p].pc \in FacetSet /\ tasks[p].invoked >= 1
    /\ tasks[p].cached # None
    /\ ~tasks[p].hit

\* C26: every cache entry holds a bundle with exactly the six facets and
\* generatedAt, and the six facets of an entry are those the call that put it
\* fetched itself, each from its own generator, also under concurrent misses
\* and facet failures.
C26_CompleteBundles ==
  [][/\ \A k \in DOMAIN dataCache' :
          DOMAIN dataCache'[k].data = FacetSet \cup {"generatedAt"}
     /\ \A p \in Tasks :
          Puts(p) =>
            LET data == dataCache'[cacheKey(tasks[p].timeRange)].data IN
            /\ Len(tasks'[p].facets) = Len(FacetNames)
            /\ SubSeq(tasks'[p].facets, 1, Len(tasks[p].facets)) = tasks[p].facets
            /\ \A i \in 1..Len(FacetNames) :
                 /\ data[FacetNames[i]] = tasks'[p].facets[i]
                 /\ \E r \in DrawsFor(FacetNames[i]) :
                      tasks'[p].facets[i] = FacetValue(FacetNames[i], r)]_vars

\* the cache holds the complete bundle of one call while another call for the
\* same time range has failed after fetching some of its facets
C26_Witness ==
  \E p \in Tasks, q \in Tasks :
    /\ tasks[p].err = ProviderError
    /\ Len(tasks[p].facets) >= 1 /\ Len(tasks[p].facets) < Len(FacetNames)
    /\ ReturnedMiss(q) /\ tasks[q].timeRange = tasks[p].timeRange
    /\ tasks[q].facets[1] # tasks[p].facets[1]
    /\ MapGet(dataCache, cacheKey(tasks[q].timeRange)) # None
    /\ MapGet(dataCache, cacheKey(tasks[q].timeRange)).data = tasks[q].data

\* C27: the cache has one entry per time range, under that range's own key, and
\* a generateAnalyticsData call changes nothing but the entry of its own time
\* range: its put sets that entry to its bundle and clock reading and leaves
\* every other entry, the reports and the dashboards unchanged.
C27_OnlyOwnEntry ==
  [][/\ \A b1 \in TimeRanges, b2 \in TimeRanges : cacheKey(b1) = cacheKey(b2) => b1 = b2
     /\ \A k \in DOMAIN dataCache' : \E b \in TimeRanges : k = cacheKey(b)
     /\ reports' = reports /\ dashboards' = dashboards
     /\ \A p \in Tasks :
          Puts(p) =>
            LET key == cacheKey(tasks[p].timeRange) IN
            /\ dataCache'[key] = [data |-> tasks'[p].data, timestamp |-> now']
            /\ DOMAIN dataCache' = (DOMAIN dataCache) \cup {key}
            /\ \A k \in (DOMAIN dataCache) \ {key} : dataCache'[k] = dataCache[k]]_vars

\* a call has replaced the stale entry of its time range while the entry of the
\* other time range is still the one stored before
C27_Witness ==
  \E p \in Tasks :
    /\ ReturnedMiss(p) /\ tasks[p].cached # None
    /\ MapGet(dataCache, cacheKey(tasks[p].timeRange)) # None
    /\ MapGet(dataCache, cacheKey(tasks[p].timeRange)).data = tasks[p].data
    /\ \E b \in TimeRanges \ {tasks[p].timeRange} :
         /\ MapGet(dataCache, cacheKey(b)) # None
         /\ MapGet(dataCache, cacheKey(b)).timestamp < tasks[p].data.generatedAt

\* C28: when the generateAnalyticsData call inside generateReport fails,
\* generateReport fails with that error, returns no report and stores none: the
\* report store, and with it the list getAllReports returns, is unchanged.
C28_FailedGenerateStoresNothing ==
  [][\A p \in Tasks :
       /\ (Fails(p) /\ tasks[p].op = "generateReport") =>
            /\ tasks'[p].pc = "report"
            /\ tasks'[p].err = ProviderError
            /\ reports' = reports
       /\ (tasks[p].pc = "report" /\ tasks[p].err # "none" /\ tasks'[p] # tasks[p]) =>
            /\ tasks'[p].pc = "done"
            /\ tasks'[p].err = tasks[p].err
            /\ tasks'[p].result = None
            /\ reports' = reports
            /\ SortDesc(reports') = SortDesc(reports)]_vars

\* a generateReport call has failed with the provider's error while the store
\* holds the report of an earlier call
C28_Witness ==
  \E p \in Tasks :
    /\ tasks[p].op = "generateReport" /\ tasks[p].pc = "done"
    /\ tasks[p].err = ProviderError /\ tasks[p].result = None
    /\ Len(reports) >= 1

\* the fields a partial sets (updatedAt is set by the clock)
Sets(updates) == (DOMAIN updates) \ {"updatedAt"}

\* the latest call of task q is an update of the dashboard under id whose
\* values the stored record d carries
Applied(q, id, d) ==
  /\ tasks[q].op = "updateDashboard" /\ tasks[q].pc = "done"
  /\ tasks[q].arg.id = id
  /\ \A f \in Sets(tasks[q].arg.updates) : d[f] = tasks[q].arg.updates[f]

\* C29: an update is one step on the stored record, so no update is lost: after
\* an update of a dashboard that carries the values of another caller's update
\* on other fields, the record carries the values of both; and an update
\* changes no dashboard but the one under its id.
C29_NoLostUpdate ==
  [][\A p \in Tasks :
       Updates(p) =>
         LET id == tasks'[p].arg.id
             updates == tasks'[p].arg.updates
             old == DashboardsGet(dashboards, id)
             new == DashboardsGet(dashboards', id)
         IN /\ \A f \in Sets(updates) : new[f] = updates[f]
            /\ \A q \in Tasks \ {p} :
                 (Applied(q, id, old) /\ Sets(tasks[q].arg.updates) \cap Sets(updates) = {}) =>
                   \A f \in Sets(tasks[q].arg.updates) : new[f] = tasks[q].arg.updates[f]
            /\ \A i \in 1..Len(dashboards) :
                 dashboards[i].key # id => dashboards'[i] = dashboards[i]]_vars

\* two callers have updated disjoint fields of the sample dashboard and the
\* record carries the values of both, next to another dashboard
C29_Witness ==
  \E p \in Tasks, q \in Tasks :
    LET d == DashboardsGet(dashboards, SampleDashboardId) IN
    /\ p # q
    /\ Applied(p, SampleDashboardId, d) /\ tasks[p].arg.updates = [name |-> "X"]
    /\ Applied(q, SampleDashboardId, d)
    /\ tasks[q].arg.updates = [description |-> "Y", isPublic |-> FALSE]
    /\ d.name = "X" /\ d.description = "Y" /\ d.isPublic = FALSE
    /\ Len(dashboards) > 1

\* task p is inside an analytics call or an export
InFlight(p) == ~Free(p)

\* the broadcaster takes a step
Ticks == broadcaster' # broadcaster

\* the tick under way publishes
Publishes == broadcaster.pc = "metrics" /\ broadcaster'.pc = "idle" /\ broadcaster'.last = "emitted"

\* C30: the broadcaster tick is independent of analytics state: it changes
\* neither the cache, the reports nor the dashboards, nor any call in flight;
\* it is never held up by a call in flight (the timer can fire and a started
\* tick can publish whatever the callers are doing); and a tick that succeeds
\* publishes exactly one 'real-time-metrics' snapshot, the same whatever the
\* analytics state, to all connected subscribers.
C30_TickIndependent ==
  /\ []((broadcaster.timer = "running" /\ broadcaster.pc = "idle") => ENABLED IntervalFires)
  /\ []((broadcaster.pc = "metrics") => ENABLED BroadcastEmit)
  /\ [][Ticks => UNCHANGED <<now, dataCache, reports, dashboards, tasks, lastPut>>]_vars
  /\ [][Publishes =>
          /\ broadcaster'.emits = 1
          /\ broadcaster'.sent = [event |-> "real-time-metrics", data |-> RealTimeMetrics,
                                  to |-> "all"]]_vars

\* a tick has published its one snapshot and the next one is under way while
\* one caller is fetching a facet and another is exporting a report
C30_Witness ==
  /\ broadcaster.last = "emitted" /\ broadcaster.sent # None
  /\ broadcaster.pc = "metrics"
  /\ \E p \in Tasks, q \in Tasks :
       /\ tasks[p].pc \in {"revenue", "trends"}
       /\ tasks[q].pc = "export"
       /\ dataCache # <<>> /\ reports # <<>>

\* the kinds of alerts two Math.random() draws select
DrawnKinds(r1, r2) ==
  AlertKinds((IF r1 > 70 THEN <<LowStockAlert(0)>> ELSE <<>>)
             \o (IF r2 > 80 THEN <<EquipmentAlert(0)>> ELSE <<>>))

\* C31: alerts are transient: an evaluation stores nothing, it leaves the
\* cache, the report store, the dashboard store and every other call as they
\* are, and what it returns is decided by its own evaluation alone, not by an
\* earlier one.
C31_AlertsTransient ==
  [][\A p \in Tasks :
       Starts(p, "checkAlerts") =>
         /\ UNCHANGED <<dataCache, reports, dashboards, lastPut, broadcaster>>
         /\ \A q \in Tasks \ {p} : tasks'[q] = tasks[q]
         /\ AlertKinds(tasks'[p].result) = DrawnKinds(tasks'[p].arg.r1, tasks'[p].arg.r2)]_vars

\* with a bundle cached and a report stored, one evaluation has returned alerts
\* and another has returned none
C31_Witness ==
  /\ dataCache # <<>> /\ reports # <<>>
  /\ \E p \in Tasks, q \in Tasks :
       /\ tasks[p].op = "checkAlerts" /\ tasks[p].pc = "done" /\ Len(tasks[p].result) = 2
       /\ tasks[q].op = "checkAlerts" /\ tasks[q].pc = "done" /\ tasks[q].result = <<>>

\* the list a finished checkAlerts call of task p returned
Returned(p) == IF tasks[p].op = "checkAlerts" /\ tasks[p].pc = "done" THEN tasks[p].result ELSE <<>>

\* C32: every alert returned is the low-stock warning of severity medium or an
\* equipment error of severity high, no other pairing of kind and severity is
\* emitted, and the low-stock warning comes before the equipment errors.
C32_AlertPairing ==
  \A p \in Tasks :
    LET alerts == Returned(p) IN
    /\ \A i \in 1..Len(alerts) :
         \/ /\ alerts[i].type = "warning" /\ alerts[i].severity = "medium"
            /\ alerts[i].message = LowStockAlert(0).message
         \/ /\ alerts[i].type = "error" /\ alerts[i].severity = "high"
            /\ alerts[i].message = EquipmentAlert(0).message
    /\ \A i \in 1..Len(alerts), j \in 1..Len(alerts) :
         (alerts[i].type = "error" /\ alerts[j].type = "warning") => j < i

\* an evaluation returned the low-stock warning followed by the equipment error
C32_Witness ==
  \E p \in Tasks :
    /\ Len(Returned(p)) = 2
    /\ Returned(p)[1].type = "warning" /\ Returned(p)[1].severity = "medium"
    /\ Returned(p)[2].type = "error" /\ Returned(p)[2].severity = "high"

\* C33: each dashboard is stored under its own id: the record at key k has
\* id = k, after any sequence of creates and updates, updates whose partial
\* carries an id included.
C33_StoredUnderOwnId ==
  \A i \in 1..Len(dashboards) : dashboards[i].value.id = dashboards[i].key

\* C34: every dashboard has createdAt <= updatedAt, and the createdAt of a
\* dashboard never changes after it is created, whatever updates are applied.
C34_CreatedAtFixed ==
  /\ [](\A i \in 1..Len(dashboards) :
          dashboards[i].value.createdAt <= dashboards[i].value.updatedAt)
  /\ [][\A p \in Tasks :
          Updates(p) =>
            DashboardsGet(dashboards', tasks'[p].arg.id).createdAt
              = DashboardsGet(dashboards, tasks'[p].arg.id).createdAt]_vars

\* C35: timestamps are ordered along the data path: every cache entry is
\* stamped no earlier than its bundle was generated, and every stored report is
\* generated no earlier than the bundle it carries, reports built from a cache
\* hit and under concurrent misses included.
C35_TimestampsOrdered ==
  /\ \A k \in DOMAIN dataCache : dataCache[k].timestamp >= dataCache[k].data.generatedAt
  /\ \A i \in 1..Len(reports) : reports[i].generatedAt >= reports[i].data.generatedAt

\* a stored report was built from a cache hit, later than the bundle it carries,
\* and the cache entry was stamped later than its bundle
C35_Witness ==
  \E p \in Tasks :
    /\ ReturnedReport(p) /\ tasks[p].hit
    /\ ReportsGet(reports, tasks[p].result.id) = tasks[p].result
    /\ tasks[p].result.generatedAt > tasks[p].result.data.generatedAt
    /\ \E k \in DOMAIN dataCache : dataCache[k].timestamp > dataCache[k].data.generatedAt

\* C36: checkOutItem fails with an error when the item does not exist or when
\* the requested quantity exceeds the item's quantity, and then the quantities
\* and the transaction log are unchanged; so, with non-negative requested
\* quantities, no quantity falls below zero, concurrent calls included.
C36_CheckOutGuarded ==
  /\ [][\A p \in Tasks :
          Starts(p, "checkOutItem") =>
            LET item == MapGet(items, tasks'[p].arg.itemId) IN
            /\ item = None =>
                 /\ tasks'[p].err = ItemNotFound /\ tasks'[p].pc = "done"
                 /\ UNCHANGED <<items, transactions>>
            /\ (item # None /\ item.quantity < tasks'[p].arg.quantity) =>
                 /\ tasks'[p].err = InsufficientStock /\ tasks'[p].pc = "done"
                 /\ UNCHANGED <<items, transactions>>]_vars
  /\ [](\A i \in DOMAIN items : items[i].quantity >= 0)

\* a check-out of more than is left has failed while another caller's
\* check-out of the same item is still awaiting its transaction
C36_Witness ==
  \E p \in Tasks, q \in Tasks :
    /\ tasks[p].op = "checkOutItem" /\ tasks[p].err = InsufficientStock
    /\ tasks[p].arg.itemId = "item-003"
    /\ tasks[q].op = "checkOutItem" /\ tasks[q].pc = "txn"
    /\ tasks[q].arg = [itemId |-> "item-003", quantity |-> 2]
    /\ items["item-003"].quantity = 1
    /\ Len(transactions) = 1

\* the transactions a step stores
Recorded ==
  { transactions'[i] : i \in { j \in 1..Len(transactions') :
                                 j > Len(transactions) \/ transactions'[j] # transactions[j] } }

\* C37: stock is conserved and the log agrees with it: each item's quantity is
\* its initial quantity minus what the successful check-outs took plus what the
\* successful returns brought back, and every transaction is recorded with the
\* item's quantity just before it and just after it.
C37_StockConserved ==
  /\ [](\A i \in DOMAIN items :
          items[i].quantity = sampleItems[i].quantity - ledger[i].out + ledger[i].back)
  /\ [][\A txn \in Recorded :
          /\ txn.previousQuantity = items[txn.itemId].quantity
          /\ txn.newQuantity = items'[txn.itemId].quantity
          /\ txn.newQuantity = IF txn.type = "out" THEN txn.previousQuantity - txn.quantity
                                                   ELSE txn.previousQuantity + txn.quantity]_vars

\* a check-out and a return of the same item by two callers, both still
\* awaiting their transaction, are both in the log
C37_Witness ==
  /\ ledger["item-003"] = [out |-> 2, back |-> 2]
  /\ items["item-003"].quantity = 3
  /\ Len(transactions) = 2
  /\ \E p \in Tasks, q \in Tasks :
       /\ tasks[p].op = "checkOutItem" /\ tasks[p].pc = "txn"
       /\ tasks[q].op = "returnItem" /\ tasks[q].pc = "txn"

\* C38: addServiceRecord always stores the record under a new id; an existing
\* customer's totalSpent grows by exactly the record's totalAmount and its
\* lastVisit becomes the record's serviceDate; an existing vehicle's mileage and
\* lastServiceDate are set from the record; when either is absent the record is
\* still stored; all other customers and vehicles are unchanged.
C38_ServiceRecordAdded ==
  [][\A p \in Tasks :
       Starts(p, "addServiceRecord") =>
         LET record == tasks'[p].arg.record
             newRecord == tasks'[p].result
         IN /\ ServiceRecordsGet(serviceRecords, newRecord.id) = None
            /\ ServiceRecordsGet(serviceRecords', newRecord.id) = newRecord
            /\ \A f \in DOMAIN record : newRecord[f] = record[f]
            /\ record.customerId \in DOMAIN customers =>
                 /\ customers'[record.customerId].totalSpent
                      = customers[record.customerId].totalSpent + record.totalAmount
                 /\ customers'[record.customerId].lastVisit = record.serviceDate
            /\ record.vehicleId \in DOMAIN vehicles =>
                 /\ vehicles'[record.vehicleId].mileage = record.mileage
                 /\ vehicles'[record.vehicleId].lastServiceDate = record.serviceDate
            /\ DOMAIN customers' = DOMAIN customers /\ DOMAIN vehicles' = DOMAIN vehicles
            /\ \A c \in DOMAIN customers \ {record.customerId} : customers'[c] = customers[c]
            /\ \A v \in DOMAIN vehicles \ {record.vehicleId} : vehicles'[v] = vehicles[v]]_vars

====
